---- MODULE Spec2Model ----
(***************************************************************************)
(* A model of the async-task inspector: the value reifier (TaskPoolValue,  *)
(* AsyncFnValue, StateValue, FutureValue, SelectValue, JoinValue) and the  *)
(* controller EmbassyInspector (new, update_values, handle_event) with the *)
(* page stack of the TUI it redraws after every event.                     *)
(*                                                                         *)
(* Conventions.  A Rust Vec is a sequence; a Rust index i is kept 0-based  *)
(* and read with At(s, i).  An Option is a sequence of length 0 or 1.  A   *)
(* u64 is kept as four 16-bit limbs, least significant first, a u32 as two *)
(* of them.  A Rust panic is the value Panic; it propagates to the caller  *)
(* as it unwinds the stack.                                                *)
(***************************************************************************)
EXTENDS Integers, Sequences, FiniteSets, TLC

VARIABLES
    status,                 \* "new" | "ready" | "failed" | "panicked"
    debug_data,             \* EmbassyInspector.debug_data
    poll_break_point_ids,   \* EmbassyInspector.poll_break_point_ids
    last_values,            \* EmbassyInspector.last_values
    formating_cache,        \* EmbassyInspector.formating_cache
    page_stack,             \* EmbassyInspector.ui_state.page_stack
    trace,                  \* what the last constructor / handle_event call did
    r_pc,                   \* reifier run: "idle" | "pool" | "async_fn" | "done"
    r_in,                   \* reifier run: the layout and the bytes
    r_out                   \* reifier run: the value produced

ctl_vars == <<status, debug_data, poll_break_point_ids, last_values,
              formating_cache, page_stack, trace>>
r_vars == <<r_pc, r_in, r_out>>
vars == <<status, debug_data, poll_break_point_ids, last_values,
          formating_cache, page_stack, trace, r_pc, r_in, r_out>>

(***************************************************************************)
(* Bounds of the model.                                                    *)
(***************************************************************************)
\* Depth of the Rust call stack the reifier may use before it overflows.
MaxDepth == 6
\* Size of the terminal the TUI is drawn on.
TermWidth == 12
TermHeight == 20
\* Failed draw attempts followed within one handle_event.
MaxRedraws == 6

(***************************************************************************)
(* Sequences, slices and integers as Rust has them.                        *)
(***************************************************************************)
At(s, i) == s[i + 1]

Panic == [kind |-> "Panic"]
StackOverflow == [kind |-> "StackOverflow"]
IsAbort(v) == v.kind \in {"Panic", "StackOverflow"}

\* The first aborted element of a sequence of results, if any.
HasAbort(s) == \E i \in 1..Len(s) : IsAbort(s[i])
FirstAbort(s) == s[CHOOSE i \in 1..Len(s) :
                     IsAbort(s[i]) /\ \A j \in 1..(i - 1) : ~IsAbort(s[j])]

\* &bytes[a..] and &bytes[..n]; each panics when out of range.
CanSliceFrom(bytes, a) == a <= Len(bytes)
SliceFrom(bytes, a) == SubSeq(bytes, a + 1, Len(bytes))
CanSliceTo(bytes, n) == n <= Len(bytes)
SliceTo(bytes, n) == SubSeq(bytes, 1, n)

Limb(lo, hi) == lo + 256 * hi
\* A small number as a u64.
U64(n) == <<n % 65536, n \div 65536, 0, 0>>

\* The big-endian reads, which the reifier does not use.
u16_from_be_bytes(b) == Limb(b[2], b[1])
u32_from_be_bytes(b) == <<Limb(b[4], b[3]), Limb(b[2], b[1])>>

u8_from_le_bytes(b) == b[1]
u16_from_le_bytes(b) == Limb(b[1], b[2])
u32_from_le_bytes(b) == <<Limb(b[1], b[2]), Limb(b[3], b[4])>>
u64_from_le_bytes(b) ==
    <<Limb(b[1], b[2]), Limb(b[3], b[4]), Limb(b[5], b[6]), Limb(b[7], b[8])>>
\* The host's byte order; only compared with zero.
u32_from_ne_bytes(b) == u32_from_le_bytes(b)

\* `as u64` of a u8/u16 and of a u32.
u16_as_u64(n) == <<n, 0, 0, 0>>
u32_as_u64(w) == <<w[1], w[2], 0, 0>>

(***************************************************************************)
(* Layouts.                                                                *)
(*   Member      [name, ty, offset, size]                                  *)
(*   State       [discriminant_value, active_members, awaitee, name]       *)
(*   AsyncFnType [members, state_member, total_size, states]               *)
(*   FutureType  [kind |-> "AsyncFn", async_fn] | [kind |-> "Select",      *)
(*               awaitees: <<offset, ty>>*] | [kind |-> "Join", awaitees:  *)
(*               <<offset, JoinAwaiteeType>>*]                             *)
(*   HeaderLayout [state_offset, state_type]                               *)
(*   TaskPool    [path, address, size, future_offset, number_of_tasks,     *)
(*               async_fn_type, async_fn_base_type, header_layout]         *)
(* A Type is its rendered name; future_types is a function from the Types  *)
(* that are futures to their FutureType.                                   *)
(***************************************************************************)
TypeVoid == "void"

Member(name, ty, offset, size) ==
    [name |-> name, ty |-> ty, offset |-> offset, size |-> size]

State(discriminant, name, active_members, awaitee) ==
    [discriminant_value |-> discriminant, active_members |-> active_members,
     awaitee |-> awaitee, name |-> name]

(***************************************************************************)
(* HeaderLayout::is_init                                                   *)
(***************************************************************************)
HeaderLayout_is_init_panics(header_layout, bytes) ==
    \/ ~CanSliceFrom(bytes, header_layout.state_offset)
    \/ LET b == SliceFrom(bytes, header_layout.state_offset)
       IN  IF header_layout.state_type = "U8" THEN Len(b) < 1 ELSE ~CanSliceTo(b, 4)

\* An is_init that looks at the first byte of the state word only.
HeaderLayout_is_init_first_byte(header_layout, bytes) ==
    SliceFrom(bytes, header_layout.state_offset)[1] > 0

HeaderLayout_is_init(header_layout, bytes) ==
    LET b == SliceFrom(bytes, header_layout.state_offset)
    IN  IF header_layout.state_type = "U8"
        THEN b[1] > 0
        ELSE u32_from_ne_bytes(SliceTo(b, 4)) # <<0, 0>>

(***************************************************************************)
(* The reifier.  `fuel` is the call-stack depth left: the functions below  *)
(* call each other recursively with no depth limit of their own.  A value  *)
(* that several later steps use is handed on as an operator argument.      *)
(***************************************************************************)
RECURSIVE FutureValue_new(_, _, _, _)
RECURSIVE AsyncFnValue_new(_, _, _, _)

\* A result, or the abort that produced it.
OrAbort(v, result) == IF IsAbort(v) THEN v ELSE result
\* A Vec of results, or the first abort among them.
SeqOrAbort(s, result) == IF HasAbort(s) THEN FirstAbort(s) ELSE result

\* The discriminant read of AsyncFnValue::new and JoinValue::new: `size`
\* bytes at the start of `bytes`, little-endian, as u64.
ReadDiscriminant(bytes, size) ==
    IF size \notin {1, 2, 4, 8} THEN Panic      \* unreachable!()
    ELSE IF ~CanSliceTo(bytes, size) THEN Panic
    ELSE [kind |-> "u64",
          value |-> CASE size = 1 -> u16_as_u64(u8_from_le_bytes(SliceTo(bytes, 1)))
                      [] size = 2 -> u16_as_u64(u16_from_le_bytes(SliceTo(bytes, 2)))
                      [] size = 4 -> u32_as_u64(u32_from_le_bytes(SliceTo(bytes, 4)))
                      [] size = 8 -> u64_from_le_bytes(SliceTo(bytes, 8))]

\* bytes[member.offset..][..member.size]
CanSliceMember(bytes, member) ==
    /\ CanSliceFrom(bytes, member.offset)
    /\ CanSliceTo(SliceFrom(bytes, member.offset), member.size)
SliceMember(bytes, member) == SliceTo(SliceFrom(bytes, member.offset), member.size)

MemberValue_new(async_fn_type, idx, bytes) ==
    IF idx >= Len(async_fn_type.members) THEN Panic
    ELSE IF ~CanSliceMember(bytes, At(async_fn_type.members, idx)) THEN Panic
    ELSE [kind |-> "MemberValue", member |-> At(async_fn_type.members, idx),
          bytes |-> SliceMember(bytes, At(async_fn_type.members, idx))]

\* The loop over state.active_members.
StateValue_members(state, bytes, async_fn_type) ==
    [k \in 1..Len(state.active_members) |->
        MemberValue_new(async_fn_type, state.active_members[k], bytes)]

\* state.awaitee.as_ref().map(..)
StateValue_awaitee(state, bytes, future_types, fuel) ==
    [k \in 1..Len(state.awaitee) |->
        IF ~CanSliceMember(bytes, state.awaitee[k]) THEN Panic
        ELSE FutureValue_new(state.awaitee[k].ty, SliceMember(bytes, state.awaitee[k]),
                             future_types, fuel)]

StateValue_of(state, members, awaitee) ==
    SeqOrAbort(members,
        SeqOrAbort(awaitee,
            [kind |-> "StateValue", state |-> state, members |-> members,
             awaitee |-> awaitee]))

StateValue_new(state, bytes, async_fn_type, future_types, fuel) ==
    StateValue_of(state, StateValue_members(state, bytes, async_fn_type),
                  StateValue_awaitee(state, bytes, future_types, fuel))

\* states.iter().find(|s| s.discriminant_value == d): the first match.
FindStateIn(states, hits) ==
    IF hits = {} THEN <<>> ELSE <<states[CHOOSE i \in hits : \A j \in hits : i <= j]>>
\* A find that settles for the first state when none matches.
FindState_or_first(states, d) ==
    IF \E i \in 1..Len(states) : states[i].discriminant_value = d
    THEN FindStateIn(states, {i \in 1..Len(states) : states[i].discriminant_value = d})
    ELSE <<states[1]>>

FindState(states, d) ==
    FindStateIn(states, {i \in 1..Len(states) : states[i].discriminant_value = d})

AsyncFnValue_of(async_fn_type, state_value) ==
    OrAbort(state_value,
        [kind |-> "AsyncFnValue", ty |-> async_fn_type,
         state_value |-> [kind |-> "Ok", ok |-> state_value]])

\* state.map(|s| StateValue::new(..)).ok_or(state_discriminant)
AsyncFnValue_state(async_fn_type, bytes, future_types, fuel, d, state) ==
    IF state = <<>>
    THEN [kind |-> "AsyncFnValue", ty |-> async_fn_type,
          state_value |-> [kind |-> "Err", err |-> d]]
    ELSE AsyncFnValue_of(async_fn_type,
             StateValue_new(state[1], bytes, async_fn_type, future_types, fuel - 1))

AsyncFnValue_decoded(async_fn_type, bytes, future_types, fuel, state_discriminant) ==
    OrAbort(state_discriminant,
        AsyncFnValue_state(async_fn_type, bytes, future_types, fuel,
                           state_discriminant.value,
                           FindState(async_fn_type.states, state_discriminant.value)))

AsyncFnValue_new(async_fn_type, bytes, future_types, fuel) ==
    IF fuel = 0 THEN StackOverflow
    ELSE IF ~CanSliceFrom(bytes, async_fn_type.state_member.offset) THEN Panic
    ELSE AsyncFnValue_decoded(async_fn_type, bytes, future_types, fuel,
             ReadDiscriminant(SliceFrom(bytes, async_fn_type.state_member.offset),
                              async_fn_type.state_member.size))

SelectValue_of(awaitees) ==
    SeqOrAbort(awaitees, [kind |-> "SelectValue", awaitees |-> awaitees])

SelectValue_new(select_type, bytes, future_types, fuel) ==
    SelectValue_of(
        [k \in 1..Len(select_type.awaitees) |->
            IF ~CanSliceFrom(bytes, select_type.awaitees[k][1]) THEN Panic
            ELSE FutureValue_new(select_type.awaitees[k][2],
                                 SliceFrom(bytes, select_type.awaitees[k][1]),
                                 future_types, fuel)])

\* One awaitee of a join once its MaybeDone discriminant is read.
JoinAwaitee_decoded(ty, bytes, future_types, fuel, discriminant) ==
    IF IsAbort(discriminant) THEN discriminant
    ELSE IF discriminant.value = ty.future_variant.discriminant
    THEN IF ~CanSliceMember(bytes, ty.future_variant) THEN Panic
         ELSE FutureValue_new(ty.future_variant.ty, SliceMember(bytes, ty.future_variant),
                              future_types, fuel)
    ELSE IF discriminant.value = ty.done_variant.discriminant
    THEN IF ~CanSliceMember(bytes, ty.done_variant) THEN Panic
         ELSE [kind |-> "Unknown", ty |-> ty.done_variant.ty,
               bytes |-> SliceMember(bytes, ty.done_variant)]
    ELSE [kind |-> "Unknown", ty |-> TypeVoid, bytes |-> <<>>]

JoinAwaitee_at(ty, bytes, future_types, fuel) ==
    IF ~CanSliceFrom(bytes, ty.discriminant_offset) THEN Panic
    ELSE JoinAwaitee_decoded(ty, bytes, future_types, fuel,
             ReadDiscriminant(SliceFrom(bytes, ty.discriminant_offset),
                              ty.discriminant_size))

JoinAwaitee_new(offset, ty, bytes, future_types, fuel) ==
    IF ~CanSliceFrom(bytes, offset) THEN Panic
    ELSE JoinAwaitee_at(ty, SliceFrom(bytes, offset), future_types, fuel)

JoinValue_of(awaitees) ==
    SeqOrAbort(awaitees, [kind |-> "JoinValue", awaitees |-> awaitees])

JoinValue_new(join_type, bytes, future_types, fuel) ==
    JoinValue_of(
        [k \in 1..Len(join_type.awaitees) |->
            JoinAwaitee_new(join_type.awaitees[k][1], join_type.awaitees[k][2],
                            bytes, future_types, fuel)])

FutureValue_of(ty, inner) ==
    OrAbort(inner, [kind |-> inner.kind, ty |-> ty, value |-> inner])

FutureValue_new(ty, bytes, future_types, fuel) ==
    IF fuel = 0 THEN StackOverflow
    ELSE IF ty \notin DOMAIN future_types
    THEN [kind |-> "Unknown", ty |-> ty, bytes |-> bytes]
    ELSE FutureValue_of(ty,
             CASE future_types[ty].kind = "AsyncFn" ->
                      AsyncFnValue_new(future_types[ty].async_fn, bytes, future_types,
                                       fuel - 1)
               [] future_types[ty].kind = "Select" ->
                      SelectValue_new(future_types[ty], bytes, future_types, fuel - 1)
               [] future_types[ty].kind = "Join" ->
                      JoinValue_new(future_types[ty], bytes, future_types, fuel - 1))

\* FutureValue::async_fn
FutureValue_async_fn(ty, async_fn_value) ==
    [kind |-> "AsyncFnValue", ty |-> ty, value |-> async_fn_value]

(***************************************************************************)
(* TaskPoolValue::new                                                      *)
(***************************************************************************)
TaskValue_init(task_pool, async_fn_value) ==
    OrAbort(async_fn_value,
        [kind |-> "Init",
         future |-> FutureValue_async_fn(task_pool.async_fn_base_type, async_fn_value)])

\* The body of the loop over the tasks, on the bytes from the task's offset.
TaskValue_at(task_pool, bytes, future_types) ==
    IF HeaderLayout_is_init_panics(task_pool.header_layout, bytes) THEN Panic
    ELSE IF HeaderLayout_is_init(task_pool.header_layout, bytes)
    THEN IF ~CanSliceFrom(bytes, task_pool.future_offset) THEN Panic
         ELSE TaskValue_init(task_pool,
                  AsyncFnValue_new(task_pool.async_fn_type,
                                   SliceFrom(bytes, task_pool.future_offset),
                                   future_types, MaxDepth))
    ELSE [kind |-> "Uninit"]

TaskValue_new(task_pool, task, len_single_task, bytes, future_types) ==
    IF ~CanSliceFrom(bytes, len_single_task * task) THEN Panic
    ELSE TaskValue_at(task_pool, SliceFrom(bytes, len_single_task * task), future_types)

TaskPoolValue_of(task_pool, task_values) ==
    SeqOrAbort(task_values,
        [kind |-> "TaskPoolValue", task_pool |-> task_pool, task_values |-> task_values])

TaskPoolValue_new(task_pool, bytes, future_types) ==
    IF Len(bytes) # task_pool.size THEN Panic                  \* assert_eq!
    ELSE IF task_pool.number_of_tasks = 0 THEN Panic           \* division by zero
    ELSE TaskPoolValue_of(task_pool,
             [k \in 1..task_pool.number_of_tasks |->
                 TaskValue_new(task_pool, k - 1,
                               task_pool.size \div task_pool.number_of_tasks,
                               bytes, future_types)])

\* DebugData::get_taskpool_value
get_taskpool_value(data, task_pool, bytes) ==
    TaskPoolValue_new(task_pool, bytes, data.future_types)

(***************************************************************************)
(* Geometry of the TUI: ratatui's Rect and the ScrollView.  Every line of  *)
(* text is taken to fit its width, so a Line is one row high.              *)
(***************************************************************************)
Max(a, b) == IF a >= b THEN a ELSE b
Min(a, b) == IF a <= b THEN a ELSE b
saturating_sub(a, b) == Max(a - b, 0)

Rect(x, y, width, height) == [x |-> x, y |-> y, width |-> width, height |-> height]

Rect_contains(r, pos) ==
    /\ pos.x >= r.x /\ pos.x < r.x + r.width
    /\ pos.y >= r.y /\ pos.y < r.y + r.height

Rect_intersection(a, b) ==
    Rect(Max(a.x, b.x), Max(a.y, b.y),
         saturating_sub(Min(a.x + a.width, b.x + b.width), Max(a.x, b.x)),
         saturating_sub(Min(a.y + a.height, b.y + b.height), Max(a.y, b.y)))

\* Block::bordered().inner(area)
Block_inner(r) ==
    Rect(r.x + 1, r.y + 1, saturating_sub(r.width, 2), saturating_sub(r.height, 2))

is_clicked_left(area, click) ==
    /\ click # <<>>
    /\ click[1].button = "Left"
    /\ Rect_contains(area, click[1].pos)

\* ScrollView::new: a buffer of the size of the area, nothing placed yet.
ScrollView_new(area, scroll) ==
    [width |-> area.width, height |-> area.height, scroll |-> scroll, next_y |-> 0]

\* The rect ScrollView::render_widget returns: the part of the widget that
\* is visible in the view.
ScrollView_render_widget(scroll_view, area) ==
    LET buff_area_y == area.y - scroll_view.scroll
        buff_area_end == area.y - scroll_view.scroll + area.height
    IN  IF buff_area_end <= 0 \/ buff_area_y >= scroll_view.height
        THEN Rect(0, 0, 0, 0)
        ELSE IF buff_area_y >= 0 /\ buff_area_end <= scroll_view.height
        THEN Rect(area.x, buff_area_y, area.width, area.height)
        ELSE Rect_intersection(
                 Rect(0, 0, scroll_view.width, scroll_view.height),
                 Rect(area.x, Max(buff_area_y, 0), area.width,
                      area.height + Min(buff_area_y, 0)))

\* The scroll view once a widget was rendered at area.
ScrollView_rendered(scroll_view, area) ==
    [scroll_view EXCEPT !.next_y = Max(@, area.y + area.height)]

\* The area under the lowest widget drawn so far, over the full width.
ScrollView_next_area(scroll_view, height) ==
    Rect(0, scroll_view.next_y, scroll_view.width, height)

ScrollView_render_next_widget(scroll_view, height) ==
    ScrollView_rendered(scroll_view, ScrollView_next_area(scroll_view, height))

ScrollView_max_scroll(scroll_view) == Max(scroll_view.next_y - scroll_view.height, 0)

(***************************************************************************)
(* The pages.  Drawing a page is a sequence of steps in program order:     *)
(*   format  a call of ctx.try_format_value                                *)
(*   hit     a widget was rendered; return Err(event) if it is clicked     *)
(*   raise   return Err(event)                                             *)
(*   panic   an index out of bounds                                        *)
(* The ItemState tree of a Task page is kept as the set of paths that are  *)
(* closed and the set of paths whose details are open.                     *)
(***************************************************************************)
MainMenu_new == [page |-> "MainMenu", scroll |-> 0]
Task_new(pool_idx, task_idx) ==
    [page |-> "Task", pool_idx |-> pool_idx, task_idx |-> task_idx,
     item_state |-> [closed |-> {}, details_open |-> {}], scroll |-> 0]
UiState_new == <<MainMenu_new>>

FormatStep(bytes, ty) == [op |-> "format", bytes |-> bytes, ty |-> ty]
HitStep(area, event) == [op |-> "hit", area |-> area, event |-> event]
RaiseStep(event) == [op |-> "raise", event |-> event]
PanicStep == [op |-> "panic"]

\* A drawing in progress: the steps so far and the scroll view.
Drawing(steps, scroll_view) == [steps |-> steps, scroll_view |-> scroll_view]
Drawing_then(drawing, steps) == [drawing EXCEPT !.steps = @ \o steps]
Drawing_render(drawing, area) ==
    [drawing EXCEPT !.scroll_view = ScrollView_rendered(@, area)]
\* scroll_view.render_widget(widget, area) followed by the click test.
Drawing_clickable(drawing, area, event) ==
    [steps |-> Append(drawing.steps,
                      HitStep(ScrollView_render_widget(drawing.scroll_view, area), event)),
     scroll_view |-> ScrollView_rendered(drawing.scroll_view, area)]

\* The final check of a page's draw against max_scroll.
Drawing_finish(drawing, scroll) ==
    IF ScrollView_max_scroll(drawing.scroll_view) < scroll
    THEN Append(drawing.steps,
                RaiseStep([event |-> "SetScroll",
                           scroll |-> ScrollView_max_scroll(drawing.scroll_view)]))
    ELSE drawing.steps

RECURSIVE MainMenu_tasks(_, _, _, _, _)
\* The loop over pool.task_values, area being the row of task task_idx.
MainMenu_tasks(drawing, pool_idx, task_values, task_idx, area) ==
    IF task_idx >= Len(task_values) THEN drawing
    ELSE MainMenu_tasks(
             Drawing_clickable(drawing, area,
                 [event |-> "AddPage", page |-> Task_new(pool_idx, task_idx)]),
             pool_idx, task_values, task_idx + 1, [area EXCEPT !.y = @ + 1])

\* One pool: the block at `area`, the heading and the task rows inside it.
MainMenu_pool(drawing, pool_idx, pool, area) ==
    MainMenu_tasks(
        Drawing_render(Drawing_render(drawing, area),
                       [Block_inner(area) EXCEPT !.height = 1]),
        pool_idx, pool.task_values, 0,
        [Block_inner(area) EXCEPT !.height = 1, !.y = @ + 1])

RECURSIVE MainMenu_pools(_, _, _)
MainMenu_pools(drawing, values, pool_idx) ==
    IF pool_idx >= Len(values) THEN drawing
    ELSE MainMenu_pools(
             MainMenu_pool(drawing, pool_idx, At(values, pool_idx),
                 ScrollView_next_area(drawing.scroll_view,
                     3 + At(values, pool_idx).task_pool.number_of_tasks)),
             values, pool_idx + 1)

MainMenu_footer(drawing) ==
    [drawing EXCEPT !.scroll_view = ScrollView_render_next_widget(@, 1)]

\* MainMenu::draw; the first row of area is the header.
MainMenu_draw(page, values, area) ==
    Drawing_finish(
        MainMenu_footer(
            MainMenu_pools(
                Drawing(<<>>,
                    ScrollView_new(Rect(area.x, area.y + Min(1, area.height), area.width,
                                        saturating_sub(area.height, 1)),
                                   page.scroll)),
                values, 0)),
        page.scroll)

\* The awaitees add_future descends into, each with its path id.
FutureValue_children(value) ==
    CASE value.kind = "AsyncFnValue" ->
             IF value.value.state_value.kind = "Ok"
             THEN [k \in 1..Len(value.value.state_value.ok.awaitee) |->
                      [value |-> value.value.state_value.ok.awaitee[k],
                       id |-> value.value.state_value.ok.state.discriminant_value]]
             ELSE <<>>
      [] value.kind \in {"SelectValue", "JoinValue"} ->
             [k \in 1..Len(value.value.awaitees) |->
                 [value |-> value.value.awaitees[k], id |-> U64(k - 1)]]
      [] OTHER -> <<>>

\* state.members.iter().find(|m| &m.member == member)
FindMemberValue(member_values, member) ==
    FindStateIn(member_values,
                {i \in 1..Len(member_values) : member_values[i].member = member})

RECURSIVE async_fn_formats(_, _, _)
\* The try_format_value calls of async_fn_to_text: one per member of the
\* layout that has a value in the current state, in layout order.
async_fn_formats(ty, member_values, idx) ==
    IF idx >= Len(ty.members) THEN <<>>
    ELSE (IF FindMemberValue(member_values, At(ty.members, idx)) = <<>> THEN <<>>
          ELSE <<FormatStep(FindMemberValue(member_values, At(ty.members, idx))[1].bytes,
                            At(ty.members, idx).ty)>>)
         \o async_fn_formats(ty, member_values, idx + 1)

\* The try_format_value calls made for the details of a future.
Details_formats(value) ==
    CASE value.kind = "AsyncFnValue" ->
             async_fn_formats(value.value.ty,
                 IF value.value.state_value.kind = "Ok"
                 THEN value.value.state_value.ok.members ELSE <<>>, 0)
      [] value.kind = "Unknown" -> <<FormatStep(value.bytes, value.ty)>>
      [] OTHER -> <<>>

\* Lines of the details text: for a coroutine an empty line, the member
\* header and its blank line, a line per state, a blank line and a line
\* per member.
Details_line_count(value) ==
    IF value.kind = "AsyncFnValue"
    THEN 1 + 2 + Len(value.value.ty.states) + 1 + Len(value.value.ty.members)
    ELSE 1

\* Height of one tree item: its line and, if open, its details with one
\* more row for the border.
Item_total_height(value, details_open) ==
    1 + (IF details_open THEN Details_line_count(value) + 1 ELSE 0)

\* The bordered block of the details and the clickable details inside it.
Item_details(drawing, area, event) ==
    Drawing_clickable(Drawing_render(drawing, area), Block_inner(area), event)

\* The button, the details (if open) and the line of one item at area.
Item_widgets(drawing, area, path, details_open) ==
    Drawing_clickable(
        IF details_open
        THEN Item_details(
                 Drawing_clickable(drawing, [area EXCEPT !.width = 2, !.height = 1],
                                   [event |-> "ToggleClosed", path |-> path]),
                 [area EXCEPT !.x = @ + 1, !.width = saturating_sub(@, 1)],
                 [event |-> "ToggleDetails", path |-> path])
        ELSE Drawing_clickable(drawing, [area EXCEPT !.width = 2, !.height = 1],
                               [event |-> "ToggleClosed", path |-> path]),
        [area EXCEPT !.x = @ + 2,
                     !.width = saturating_sub(saturating_sub(@, 1), 2),
                     !.height = 1],
        [event |-> "ToggleDetails", path |-> path])

RECURSIVE Task_add_future(_, _, _, _)
RECURSIVE Task_add_children(_, _, _, _, _)

\* The loop over the children of an item.
Task_add_children(drawing, children, k, path, item_state) ==
    IF k > Len(children) THEN drawing
    ELSE Task_add_children(
             Task_add_future(drawing, children[k].value, Append(path, children[k].id),
                             item_state),
             children, k + 1, path, item_state)

Task_item_children(drawing, value, path, item_state) ==
    IF path \in item_state.closed THEN drawing
    ELSE Task_add_children(drawing, FutureValue_children(value), 1, path, item_state)

\* Task::add_future
Task_add_future(drawing, value, path, item_state) ==
    IF saturating_sub(saturating_sub(drawing.scroll_view.width, Len(path) * 2), 3) = 0
    THEN Drawing_then(drawing,
             IF path \in item_state.details_open THEN Details_formats(value) ELSE <<>>)
    ELSE Task_item_children(
             Item_widgets(
                 Drawing_then(drawing,
                     IF path \in item_state.details_open THEN Details_formats(value)
                     ELSE <<>>),
                 [ScrollView_next_area(drawing.scroll_view,
                      Item_total_height(value, path \in item_state.details_open))
                  EXCEPT !.x = @ + Len(path) * 2, !.width = @ - Len(path) * 2],
                 path, path \in item_state.details_open),
             value, path, item_state)

Drawing_lines(drawing, n) ==
    [drawing EXCEPT !.scroll_view = ScrollView_render_next_widget(@, n)]

\* The body of Task::draw for the task found.
Task_draw_task(page, task, area) ==
    Drawing_finish(
        IF task.kind = "Uninit"
        THEN Drawing_lines(Drawing(<<>>, ScrollView_new(area, page.scroll)), 1)
        ELSE Drawing_lines(
                 Drawing_lines(
                     Task_add_future(
                         Drawing_lines(Drawing(<<>>, ScrollView_new(area, page.scroll)), 1),
                         task.future, <<>>, page.item_state),
                     1),
                 1),
        page.scroll)

\* Task::draw
Task_draw(page, values, area) ==
    IF page.pool_idx >= Len(values) THEN <<RaiseStep([event |-> "Back"])>>
    ELSE IF page.task_idx >= Len(At(values, page.pool_idx).task_values)
    THEN <<RaiseStep([event |-> "Back"])>>
    ELSE Task_draw_task(page, At(At(values, page.pool_idx).task_values, page.task_idx),
                        area)

\* Task::title indexes values with pool_idx.
Page_title(page, values) ==
    IF page.page = "Task" /\ page.pool_idx >= Len(values) THEN <<PanicStep>> ELSE <<>>

Page_draw(page, values, area) ==
    IF page.page = "MainMenu" THEN MainMenu_draw(page, values, area)
    ELSE Task_draw(page, values, area)

\* UiState::draw_title_bar
UiState_draw_title_bar(page_stack_, values, area) ==
    (IF Len(page_stack_) > 1
     THEN <<HitStep(Rect(area.x, area.y, Min(6, area.width), area.height),
                    [event |-> "Back"])>>
     ELSE <<>>)
    \o Page_title(page_stack_[Len(page_stack_)], values)

\* UiState::draw as its steps, on a frame of the given size.
UiState_draw(page_stack_, click, values, frame) ==
    IF click # <<>> /\ click[1].button = "Right" THEN <<RaiseStep([event |-> "Back"])>>
    ELSE UiState_draw_title_bar(page_stack_, values,
                                Rect(0, 0, frame.width, Min(1, frame.height)))
         \o Page_draw(page_stack_[Len(page_stack_)], values,
                      Rect(0, Min(1, frame.height), frame.width,
                           saturating_sub(frame.height, 1)))

\* Whether a step makes draw return, given the click.
Step_returns(step, click) ==
    \/ step.op \in {"raise", "panic"}
    \/ step.op = "hit" /\ is_clicked_left(step.area, click)

\* The first step of a draw that returns, 0 if the draw runs to its end.
FirstReturn(steps, click) ==
    IF \E i \in 1..Len(steps) : Step_returns(steps[i], click)
    THEN CHOOSE i \in 1..Len(steps) :
             /\ Step_returns(steps[i], click)
             /\ \A j \in 1..(i - 1) : ~Step_returns(steps[j], click)
    ELSE 0

\* The (bytes, type) pairs try_format_value was called with before step n,
\* or in the whole draw if n = 0.
FormatsBefore(steps, n) ==
    { <<steps[i].bytes, steps[i].ty>> :
        i \in { j \in 1..(IF n = 0 THEN Len(steps) ELSE n - 1) : steps[j].op = "format" } }

\* format_value: what the adapter formats, or else the bytes in hex.
format_value(bytes, ty, formats) ==
    IF ty \in formats THEN [kind |-> "formatted", bytes |-> bytes, ty |-> ty]
    ELSE [kind |-> "bytes", bytes |-> bytes]

\* formating_cache.entry(key).or_insert_with_key(format_value) for each key.
\* An entry carries `stale`: whether a snapshot was taken since it was
\* inserted.
Cache_keys(cache) == { <<e.bytes, e.ty>> : e \in cache }
try_format_values(cache, keys, formats) ==
    cache \cup { [bytes |-> k[1], ty |-> k[2], stale |-> FALSE,
                  line |-> format_value(k[1], k[2], formats)]
                 : k \in keys \ Cache_keys(cache) }

\* A formating_cache that clear() leaves as it is.
Cache_not_cleared(cache) == cache

\* formating_cache.clear()
Cache_clear(cache) == {}

ItemState_toggle(paths, path) ==
    IF path \in paths THEN paths \ {path} ELSE paths \cup {path}

\* UiPage::apply_event of MainMenu and of Task
Page_apply_event(page, event) ==
    CASE event.event = "SetScroll" -> [page EXCEPT !.scroll = event.scroll]
      [] event.event = "ToggleClosed" /\ page.page = "Task" ->
             [page EXCEPT !.item_state.closed = ItemState_toggle(@, event.path)]
      [] event.event = "ToggleDetails" /\ page.page = "Task" ->
             [page EXCEPT !.item_state.details_open = ItemState_toggle(@, event.path)]
      [] OTHER -> page

\* UiPage::apply_scroll
Page_apply_scroll(page, scroll) == [page EXCEPT !.scroll = Max(@ + scroll, 0)]

UiState_apply_scroll(page_stack_, scroll) ==
    [page_stack_ EXCEPT ![Len(page_stack_)] = Page_apply_scroll(@, scroll)]

\* An apply_event that leaves the pages themselves as they are.
UiState_apply_event_stack_only(page_stack_, event) ==
    CASE event.event = "Back" ->
             IF Len(page_stack_) # 1 THEN SubSeq(page_stack_, 1, Len(page_stack_) - 1)
             ELSE page_stack_
      [] event.event = "AddPage" -> Append(page_stack_, event.page)
      [] OTHER -> page_stack_

\* UiState::apply_event
UiState_apply_event(page_stack_, event) ==
    CASE event.event = "Back" ->
             IF Len(page_stack_) # 1 THEN SubSeq(page_stack_, 1, Len(page_stack_) - 1)
             ELSE page_stack_
      [] event.event = "AddPage" -> Append(page_stack_, event.page)
      [] OTHER -> [page_stack_ EXCEPT ![Len(page_stack_)] = Page_apply_event(@, event)]

(***************************************************************************)
(* The controller.  `self` is the EmbassyInspector, `callback` what the    *)
(* adapter answers during the call:                                        *)
(*   reads       per task pool, [ok, bytes] of its read_memory             *)
(*   resume_ok   whether resume() succeeds                                 *)
(*   formats     the types try_format_value formats                        *)
(*   terminal_ok whether the terminal backend takes the frame              *)
(* A call yields the new self, the adapter calls it made in order, and how *)
(* it returned: "Ok", "Err" or "Panic".                                    *)
(***************************************************************************)
Frame == [width |-> TermWidth, height |-> TermHeight]

ReadCall(task_pool, read) ==
    [call |-> "read_memory", addr |-> task_pool.address, len |-> task_pool.size,
     result |-> read]
ResumeCall(ok) == [call |-> "resume", ok |-> ok]
SetBreakpointCall(addr, result) == [call |-> "set_breakpoint", addr |-> addr,
                                    result |-> result]
GetObjectfilesCall == [call |-> "get_objectfiles"]

\* `applied` counts the UiEvents the redraw loop applied during the call.
Called(self, calls, ret, drawn) ==
    [self |-> self, calls |-> calls, ret |-> ret, drawn |-> drawn, applied |-> 0]

RECURSIVE update_values_loop(_, _, _, _)
\* The loop of update_values over debug_data.task_pools, from pool k on.
update_values_next(self, callback, calls, k, task_pool_value) ==
    IF IsAbort(task_pool_value) THEN Called(self, calls, "Panic", FALSE)
    ELSE update_values_loop(
             [self EXCEPT !.last_values = Append(@, task_pool_value)],
             callback, calls, k + 1)

\* A loop that ends at the first failed read.
update_values_loop_breaking(self, callback, calls, k) ==
    IF k > Len(self.debug_data.task_pools) THEN Called(self, calls, "Ok", FALSE)
    ELSE IF ~callback.reads[k].ok
    THEN Called(self,
             Append(calls, ReadCall(self.debug_data.task_pools[k], callback.reads[k])),
             "Ok", FALSE)
    ELSE update_values_next(self, callback,
             Append(calls, ReadCall(self.debug_data.task_pools[k], callback.reads[k])),
             k,
             get_taskpool_value(self.debug_data, self.debug_data.task_pools[k],
                                callback.reads[k].bytes))

update_values_loop(self, callback, calls, k) ==
    IF k > Len(self.debug_data.task_pools) THEN Called(self, calls, "Ok", FALSE)
    ELSE IF ~callback.reads[k].ok
    THEN update_values_loop(self, callback,
             Append(calls, ReadCall(self.debug_data.task_pools[k], callback.reads[k])),
             k + 1)
    ELSE update_values_next(self, callback,
             Append(calls, ReadCall(self.debug_data.task_pools[k], callback.reads[k])),
             k,
             get_taskpool_value(self.debug_data, self.debug_data.task_pools[k],
                                callback.reads[k].bytes))

\* The entries of the cache as they are once a new snapshot is begun.
Cache_aged(cache) == { [e EXCEPT !.stale = TRUE] : e \in cache }

\* An update_values that keeps the values of the snapshot before.
update_values_appending(self, callback, calls) ==
    update_values_loop([self EXCEPT !.formating_cache = Cache_clear(Cache_aged(@))],
                       callback, calls, 1)

\* EmbassyInspector::update_values
update_values(self, callback, calls) ==
    update_values_loop(
        [self EXCEPT !.last_values = <<>>,
                     !.formating_cache = Cache_clear(Cache_aged(@))],
        callback, calls, 1)

\* The passes of the while-let loop done when `fuel` of them are left.
Applied(called, fuel) == [called EXCEPT !.applied = MaxRedraws - fuel]

RECURSIVE draw_loop(_, _, _, _)
\* One ui_state.draw(&mut ctx) of the loop, n being the step it returned at.
draw_attempt(self, callback, fuel, steps, n) ==
    IF n = 0
    THEN Applied(Called([self EXCEPT !.formating_cache =
                             try_format_values(@, FormatsBefore(steps, n),
                                               callback.formats)],
                        <<>>, IF callback.terminal_ok THEN "Ok" ELSE "Err", TRUE),
                 fuel)
    ELSE IF steps[n].op = "panic"
    THEN Applied(Called([self EXCEPT !.formating_cache =
                             try_format_values(@, FormatsBefore(steps, n),
                                               callback.formats)],
                        <<>>, "Panic", FALSE),
                 fuel)
    ELSE draw_loop(
             [self EXCEPT !.formating_cache =
                              try_format_values(@, FormatsBefore(steps, n),
                                                callback.formats),
                          !.ui_state = UiState_apply_event(@, steps[n].event)],
             <<>>, callback, fuel - 1)

draw_steps(self, click, callback, fuel, steps) ==
    draw_attempt(self, callback, fuel, steps, FirstReturn(steps, click))

\* terminal.draw(..) of handle_event: draw until a draw succeeds.
draw_loop(self, click, callback, fuel) ==
    IF fuel = 0 THEN Applied(Called(self, <<>>, "Diverged", FALSE), fuel)
    ELSE draw_steps(self, click, callback, fuel,
                    UiState_draw(self.ui_state, click, self.last_values, Frame))

\* The part of handle_event after the match on the event.
handle_draw_done(calls, drawn) == [drawn EXCEPT !.calls = calls]
handle_draw(self, click, callback, calls) ==
    handle_draw_done(calls, draw_loop(self, click, callback, MaxRedraws))

\* A test that takes every breakpoint for one of ours.
contains_any(ids, i) == TRUE

\* poll_break_point_ids.contains(&i)
contains(ids, i) == \E k \in 1..Len(ids) : ids[k] = i

\* A Breakpoint arm that logs an error of resume() and goes on.
handle_breakpoint_logging(updated, i, callback) ==
    IF updated.ret = "Panic" THEN updated
    ELSE IF ~contains(updated.self.poll_break_point_ids, i)
    THEN handle_draw(updated.self, <<>>, callback, updated.calls)
    ELSE handle_draw(updated.self, <<>>, callback,
                     Append(updated.calls, ResumeCall(callback.resume_ok)))

\* The Breakpoint arm once update_values is done.
handle_breakpoint(updated, i, callback) ==
    IF updated.ret = "Panic" THEN updated
    ELSE IF ~contains(updated.self.poll_break_point_ids, i)
    THEN handle_draw(updated.self, <<>>, callback, updated.calls)
    ELSE IF callback.resume_ok
    THEN handle_draw(updated.self, <<>>, callback,
                     Append(updated.calls, ResumeCall(TRUE)))
    ELSE Called(updated.self, Append(updated.calls, ResumeCall(FALSE)), "Err", FALSE)

\* A Stoped arm that takes the breakpoints to be gone.
handle_stoped_forgetting(updated, callback) ==
    IF updated.ret = "Panic" THEN updated
    ELSE handle_draw([updated.self EXCEPT !.poll_break_point_ids = <<>>],
                     <<>>, callback, updated.calls)

\* The Stoped arm once update_values is done.
handle_stoped(updated, callback) ==
    IF updated.ret = "Panic" THEN updated
    ELSE handle_draw(updated.self, <<>>, callback, updated.calls)

\* A handle_event that resumes a safepoint breakpoint before it reads.
handle_event_resume_first(self, event, callback) ==
    CASE event.kind = "Redraw" -> handle_draw(self, <<>>, callback, <<>>)
      [] event.kind = "Click" -> handle_draw(self, <<event.click>>, callback, <<>>)
      [] event.kind = "Scroll" ->
             handle_draw([self EXCEPT !.ui_state = UiState_apply_scroll(@, event.scroll)],
                         <<>>, callback, <<>>)
      [] event.kind = "Breakpoint" ->
             IF ~contains(self.poll_break_point_ids, event.id)
             THEN handle_stoped(update_values(self, callback, <<>>), callback)
             ELSE IF callback.resume_ok
             THEN handle_stoped(update_values(self, callback, <<ResumeCall(TRUE)>>),
                                callback)
             ELSE Called(self, <<ResumeCall(FALSE)>>, "Err", FALSE)
      [] event.kind = "Stoped" ->
             handle_stoped(update_values(self, callback, <<>>), callback)

\* A handle_event that takes a snapshot on Redraw as well.
handle_event_redraw_updates(self, event, callback) ==
    CASE event.kind \in {"Redraw", "Stoped"} ->
             handle_stoped(update_values(self, callback, <<>>), callback)
      [] event.kind = "Click" -> handle_draw(self, <<event.click>>, callback, <<>>)
      [] event.kind = "Scroll" ->
             handle_draw([self EXCEPT !.ui_state = UiState_apply_scroll(@, event.scroll)],
                         <<>>, callback, <<>>)
      [] event.kind = "Breakpoint" ->
             handle_breakpoint(update_values(self, callback, <<>>), event.id, callback)

\* EmbassyInspector::handle_event
handle_event(self, event, callback) ==
    CASE event.kind = "Redraw" -> handle_draw(self, <<>>, callback, <<>>)
      [] event.kind = "Click" -> handle_draw(self, <<event.click>>, callback, <<>>)
      [] event.kind = "Scroll" ->
             handle_draw([self EXCEPT !.ui_state = UiState_apply_scroll(@, event.scroll)],
                         <<>>, callback, <<>>)
      [] event.kind = "Breakpoint" ->
             handle_breakpoint(update_values(self, callback, <<>>), event.id, callback)
      [] event.kind = "Stoped" ->
             handle_stoped(update_values(self, callback, <<>>), callback)

(***************************************************************************)
(* The reifier on its own: a layout and a byte window are drawn, and one   *)
(* step applies TaskPoolValue::new or AsyncFnValue::new to them.           *)
(***************************************************************************)
\* All byte strings of length n over the byte values vals.
BytesOver(vals, n) == [1..n -> vals]

StateMember(offset, size) == Member("__state", "u" \o "N", offset, size)

\* A coroutine of 2 bytes: its state byte and one local that is live while
\* it is suspended.
FSmall ==
    [members |-> <<Member("a", "u8", 1, 1)>>,
     state_member |-> StateMember(0, 1),
     total_size |-> 2,
     states |-> <<State(U64(0), "Unresumed", <<>>, <<>>),
                  State(U64(1), "Returned", <<>>, <<>>),
                  State(U64(3), "Suspend0", <<0>>, <<>>)>>]

\* A coroutine that is its state byte only.
FTiny ==
    [members |-> <<>>,
     state_member |-> StateMember(0, 1),
     total_size |-> 1,
     states |-> <<State(U64(0), "Unresumed", <<>>, <<>>),
                  State(U64(1), "Returned", <<>>, <<>>)>>]

ReifyFutureTypes ==
    [t \in {"FSmall", "FTiny"} |->
        [kind |-> "AsyncFn", async_fn |-> IF t = "FSmall" THEN FSmall ELSE FTiny]]

Pool(path, size, future_offset, n, fn, base, state_offset, state_type) ==
    [path |-> path, address |-> 4096, size |-> size, future_offset |-> future_offset,
     number_of_tasks |-> n, async_fn_type |-> fn, async_fn_base_type |-> base,
     header_layout |-> [state_offset |-> state_offset, state_type |-> state_type]]

\* The pools the reifier is run on, each with the byte values its memory
\* is filled from.
ReifyPools ==
    { [pool |-> Pool("u8x2", 6, 1, 2, FSmall, "FSmall", 0, "U8"), vals |-> {0, 1, 3}],
      [pool |-> Pool("u8at1", 4, 2, 1, FSmall, "FSmall", 1, "U8"), vals |-> {0, 1, 3}],
      [pool |-> Pool("u32x2", 10, 4, 2, FTiny, "FTiny", 0, "U32"), vals |-> {0, 1}],
      [pool |-> Pool("odd", 7, 1, 2, FSmall, "FSmall", 0, "U8"), vals |-> {0, 3}],
      [pool |-> Pool("empty", 0, 1, 0, FSmall, "FSmall", 0, "U8"), vals |-> {0}],
      [pool |-> Pool("u8x1", 3, 1, 1, FSmall, "FSmall", 0, "U8"), vals |-> {0, 1, 255}] }

\* Coroutine layouts with a discriminant of each width.
AsyncFn1 ==
    [members |-> <<Member("a", "u8", 1, 1), Member("b", "u8", 2, 1)>>,
     state_member |-> StateMember(0, 1),
     total_size |-> 4,
     states |-> <<State(U64(0), "Unresumed", <<0>>, <<>>),
                  State(U64(1), "Returned", <<>>, <<>>),
                  State(U64(3), "Suspend0", <<0, 1>>,
                        <<Member("__awaitee", "Timer", 3, 1)>>)>>]
AsyncFn2 ==
    [members |-> <<Member("a", "u8", 0, 1)>>,
     state_member |-> StateMember(1, 2),
     total_size |-> 3,
     states |-> <<State(U64(0), "Unresumed", <<>>, <<>>),
                  State(U64(3), "Suspend0", <<0>>, <<>>),
                  State(U64(768), "Suspend1", <<>>, <<>>)>>]
AsyncFn4 ==
    [members |-> <<Member("a", "u8", 4, 1)>>,
     state_member |-> StateMember(0, 4),
     total_size |-> 5,
     states |-> <<State(U64(0), "Unresumed", <<>>, <<>>),
                  State(<<3, 0, 0, 0>>, "Suspend0", <<0>>, <<>>),
                  State(<<0, 3, 0, 0>>, "Suspend1", <<>>, <<>>),
                  State(<<0, 768, 0, 0>>, "Suspend2", <<0>>, <<>>)>>]
AsyncFn8 ==
    [members |-> <<Member("a", "u8", 8, 1)>>,
     state_member |-> StateMember(0, 8),
     total_size |-> 9,
     states |-> <<State(U64(0), "Unresumed", <<>>, <<>>),
                  State(<<3, 0, 0, 0>>, "Suspend0", <<0>>, <<>>),
                  State(<<0, 0, 3, 0>>, "Suspend1", <<>>, <<>>),
                  State(<<0, 0, 0, 768>>, "Suspend2", <<0>>, <<>>)>>]

ReifyAsyncFns ==
    { [ty |-> AsyncFn1, vals |-> {0, 1, 3}], [ty |-> AsyncFn2, vals |-> {0, 1, 3}],
      [ty |-> AsyncFn4, vals |-> {0, 3}], [ty |-> AsyncFn8, vals |-> {0, 3}] }

ReifyPoolInputs ==
    UNION { { [kind |-> "pool", task_pool |-> c.pool, bytes |-> b]
              : b \in BytesOver(c.vals, c.pool.size) } : c \in ReifyPools }
ReifyAsyncFnInputs ==
    UNION { { [kind |-> "async_fn", async_fn_type |-> c.ty, bytes |-> b]
              : b \in BytesOver(c.vals, c.ty.total_size) } : c \in ReifyAsyncFns }

\* One variant of a MaybeDone and one awaitee of a join.
JoinAwaiteeTypeVariant(discriminant, offset, size, ty) ==
    [discriminant |-> discriminant, offset |-> offset, size |-> size, ty |-> ty]
JoinAwaiteeType(discriminant_offset, discriminant_size, future_variant, done_variant) ==
    [discriminant_offset |-> discriminant_offset,
     discriminant_size |-> discriminant_size,
     future_variant |-> future_variant, done_variant |-> done_variant]

\* A join of two futures: a coroutine behind a 1-byte discriminant, and a
\* timer, of a type that is no future type of the program, in front of a
\* 2-byte discriminant.
JPair ==
    [kind |-> "Join",
     awaitees |->
        << <<0, JoinAwaiteeType(0, 1, JoinAwaiteeTypeVariant(U64(0), 1, 2, "FSmall"),
                                      JoinAwaiteeTypeVariant(U64(1), 1, 1, "u8"))>>,
           <<3, JoinAwaiteeType(2, 2, JoinAwaiteeTypeVariant(U64(0), 0, 2, "Timer"),
                                      JoinAwaiteeTypeVariant(U64(1), 0, 1, "u8"))>> >>]

\* A select of a coroutine and a timer.
SPair == [kind |-> "Select", awaitees |-> << <<0, "FSmall">>, <<2, "Timer">> >>]

\* A select of a timer, of a type that is no future type of the program,
\* and a coroutine behind it.
STimer == [kind |-> "Select", awaitees |-> << <<0, "Timer">>, <<2, "FSmall">> >>]

\* A coroutine that awaits the select.
Deep ==
    [members |-> <<>>,
     state_member |-> StateMember(0, 1),
     total_size |-> 5,
     states |-> <<State(U64(0), "Unresumed", <<>>, <<>>),
                  State(U64(3), "Suspend0", <<>>, <<Member("__awaitee", "SPair", 1, 4)>>)>>]

\* Debug info that is not well formed: a select that holds itself, a
\* coroutine that awaits itself, and a coroutine whose awaitee lies behind
\* the end of its own storage.
Loop == [kind |-> "Select", awaitees |-> << <<0, "Loop">> >>]
Shrink ==
    [members |-> <<>>,
     state_member |-> StateMember(0, 1),
     total_size |-> 3,
     states |-> <<State(U64(0), "Unresumed", <<>>, <<>>),
                  State(U64(3), "Suspend0", <<>>, <<Member("__awaitee", "Shrink", 1, 2)>>)>>]
Short ==
    [members |-> <<>>,
     state_member |-> StateMember(0, 1),
     total_size |-> 3,
     states |-> <<State(U64(0), "Unresumed", <<>>, <<>>),
                  State(U64(3), "Suspend0", <<>>, <<Member("__awaitee", "Timer", 1, 4)>>)>>]

AsyncFnFuture(async_fn_type) == [kind |-> "AsyncFn", async_fn |-> async_fn_type]

\* The future types of the program the futures below are reified against.
ReifyFutureTypesOf(ty) ==
    CASE ty \in {"JPair", "SPair", "STimer", "Deep"} ->
             [t \in {"JPair", "SPair", "STimer", "Deep", "FSmall"} |->
                 CASE t = "JPair" -> JPair
                   [] t = "SPair" -> SPair
                   [] t = "STimer" -> STimer
                   [] t = "Deep" -> AsyncFnFuture(Deep)
                   [] t = "FSmall" -> AsyncFnFuture(FSmall)]
      [] ty = "Loop" -> [t \in {"Loop"} |-> Loop]
      [] ty = "Shrink" -> [t \in {"Shrink"} |-> AsyncFnFuture(Shrink)]
      [] ty = "Short" -> [t \in {"Short"} |-> AsyncFnFuture(Short)]

\* The futures the reifier is run on: a type, the length of its storage and
\* the byte values the storage is filled from.
ReifyFutures ==
    { [ty |-> "JPair", size |-> 7, vals |-> {0, 1, 3}],
      [ty |-> "SPair", size |-> 4, vals |-> {0, 1, 3}],
      [ty |-> "STimer", size |-> 4, vals |-> {0, 1, 3}],
      [ty |-> "Deep", size |-> 5, vals |-> {0, 1, 3}],
      [ty |-> "Loop", size |-> 1, vals |-> {0, 3}],
      [ty |-> "Shrink", size |-> 3, vals |-> {0, 3}],
      [ty |-> "Short", size |-> 3, vals |-> {0, 3}] }

ReifyFutureInputs ==
    UNION { { [kind |-> "future", ty |-> c.ty, bytes |-> b,
               future_types |-> ReifyFutureTypesOf(c.ty)]
              : b \in BytesOver(c.vals, c.size) } : c \in ReifyFutures }

NoValue == [kind |-> "None"]

CtlIdle ==
    /\ status = "off"
    /\ debug_data = NoValue
    /\ poll_break_point_ids = <<>>
    /\ last_values = <<>>
    /\ formating_cache = {}
    /\ page_stack = <<>>
    /\ trace = NoValue

ReifyInit ==
    /\ CtlIdle
    /\ r_in \in ReifyPoolInputs \cup ReifyAsyncFnInputs \cup ReifyFutureInputs
    /\ r_pc = r_in.kind
    /\ r_out = NoValue

ReifyTaskPool ==
    /\ r_pc = "pool"
    /\ r_out' = TaskPoolValue_new(r_in.task_pool, r_in.bytes, ReifyFutureTypes)
    /\ r_pc' = "done"
    /\ UNCHANGED <<r_in, ctl_vars>>

ReifyAsyncFn ==
    /\ r_pc = "async_fn"
    /\ r_out' = AsyncFnValue_new(r_in.async_fn_type, r_in.bytes, ReifyFutureTypes, MaxDepth)
    /\ r_pc' = "done"
    /\ UNCHANGED <<r_in, ctl_vars>>

ReifyFuture ==
    /\ r_pc = "future"
    /\ r_out' = FutureValue_new(r_in.ty, r_in.bytes, r_in.future_types, MaxDepth)
    /\ r_pc' = "done"
    /\ UNCHANGED <<r_in, ctl_vars>>

ReifyNext == ReifyTaskPool \/ ReifyAsyncFn \/ ReifyFuture

SpecReify == ReifyInit /\ [][ReifyNext]_vars

(***************************************************************************)
(* EmbassyInspector::new.  The adapter's answers at construction:          *)
(*   objectfiles   [ok, files] of get_objectfiles                          *)
(*   breakpoint_ids "addr" (the address is the id) or "fresh" (ids of the  *)
(*                 adapter's own); breakpoint_fail_at the set_breakpoint   *)
(*                 call that fails, 0 for none                             *)
(*   terminal_new_ok whether Terminal::new succeeds                        *)
(* and reads, formats, terminal_ok as for handle_event.                    *)
(***************************************************************************)
(***************************************************************************)
(* DebugData::from_object_file.  An object file is given by what its debug  *)
(* info holds:                                                             *)
(*   future_types  the future types found in it, by type name              *)
(*   header        the TaskHeader layout, if it has one                     *)
(*   pool_types    its TaskPool<..> types [name, count, future_offset], in  *)
(*                 the order of its units                                   *)
(*   variables     its variables [name, holder, namespace, address, size],  *)
(*                 in the order of its units                                *)
(*   poll_done_addresses  the ends of the executor's poll function          *)
(* A HashMap is iterated in an order that its hasher decides, and the       *)
(* hasher is seeded at random: `hasher` gives, for each of the two maps the *)
(* extraction builds, the order in which its keys are met.                  *)
(***************************************************************************)
starts_with(name, prefix) ==
    Len(name) >= Len(prefix) /\ SubSeq(name, 1, Len(prefix)) = prefix

RECURSIVE namespace_to_path(_)
\* A namespace is the sequence of its names, the outermost first.
namespace_to_path(namespace) ==
    IF Len(namespace) = 1 THEN namespace[1]
    ELSE namespace_to_path(SubSeq(namespace, 1, Len(namespace) - 1))
             \o "::" \o namespace[Len(namespace)]

\* The first element of a sequence that passes, as an Option.
FirstOf(s, hits) ==
    IF hits = {} THEN <<>> ELSE <<s[CHOOSE i \in hits : \A j \in hits : i <= j]>>

\* The keys of a HashMap in the order its iterator yields them.
RECURSIVE HashMap_iter(_, _)
HashMap_iter(keys, order) ==
    IF order = <<>> THEN <<>>
    ELSE IF Head(order) \in keys THEN <<Head(order)>> \o HashMap_iter(keys, Tail(order))
    ELSE HashMap_iter(keys, Tail(order))

\* TaskPool::find_taks_pool
find_taks_pool(task_name, pool_types) ==
    FirstOf(pool_types,
            { i \in 1..Len(pool_types) :
                starts_with(pool_types[i].name, "TaskPool<" \o task_name) })

\* future_types.iter().find(|(ty, _)| name.starts_with(&task_name))
find_future_type(task_name, types) ==
    FirstOf(types, { i \in 1..Len(types) : starts_with(types[i], task_name) })

NoPool == [kind |-> "None"]
ExtractErr == [kind |-> "Err"]

\* The end of from_ddbug_var, once the pool type and the future type of the
\* task are looked up.
from_ddbug_var_found(unit_var, future_types, header_layout, task_pool_type, found) ==
    IF task_pool_type = <<>> THEN ExtractErr
    ELSE IF found = <<>> THEN ExtractErr
    ELSE IF future_types[found[1]].kind # "AsyncFn" THEN ExtractErr
    ELSE [kind |-> "Some",
          task_pool |->
              [path |-> namespace_to_path(unit_var.namespace),
               address |-> unit_var.address,
               size |-> unit_var.size,
               future_offset |-> task_pool_type[1].future_offset,
               number_of_tasks |-> task_pool_type[1].count,
               async_fn_type |-> future_types[found[1]].async_fn,
               async_fn_base_type |-> found[1],
               header_layout |-> header_layout]]

from_ddbug_var_named(unit_var, future_types, header_layout, pool_types, types, task_name) ==
    from_ddbug_var_found(unit_var, future_types, header_layout,
                         find_taks_pool(task_name, pool_types),
                         find_future_type(task_name, types))

\* TaskPool::from_ddbug_var; `types` are the keys of future_types as its
\* iterator yields them.
TaskPool_from_ddbug_var(unit_var, future_types, header_layout, pool_types, types) ==
    IF unit_var.name # "POOL" THEN NoPool
    ELSE IF ~starts_with(unit_var.holder, "TaskPoolHolder") THEN NoPool
    ELSE IF Len(unit_var.namespace) < 2 THEN ExtractErr
    ELSE from_ddbug_var_named(unit_var, future_types, header_layout, pool_types, types,
             namespace_to_path(SubSeq(unit_var.namespace, 1, Len(unit_var.namespace) - 1))
                 \o "::__" \o unit_var.namespace[Len(unit_var.namespace)] \o "_task")

\* task_pools.insert(path, task_pool) for every variable: the last pool
\* inserted under a path is the one the map holds.
task_pools_insert(found, path) ==
    found[CHOOSE k \in 1..Len(found) :
              /\ found[k].kind = "Some"
              /\ found[k].task_pool.path = path
              /\ \A j \in (k + 1)..Len(found) :
                     ~(found[j].kind = "Some" /\ found[j].task_pool.path = path)].task_pool

RECURSIVE sort_unstable_by_key(_)
\* sort_unstable_by_key(|task| Reverse(task.async_fn_type.total_size)): the
\* biggest future first.  Which of two pools with futures of one size comes
\* first is not specified; here it is the one met first, and the order in
\* which the pools are met is any order.
sort_unstable_by_key(pools) ==
    IF pools = <<>> THEN <<>>
    ELSE LET first == CHOOSE i \in 1..Len(pools) :
                          /\ \A j \in 1..Len(pools) :
                                 pools[j].async_fn_type.total_size
                                     <= pools[i].async_fn_type.total_size
                          /\ \A j \in 1..(i - 1) :
                                 pools[j].async_fn_type.total_size
                                     < pools[i].async_fn_type.total_size
         IN  <<pools[first]>>
                 \o sort_unstable_by_key([k \in 1..(Len(pools) - 1) |->
                                             IF k < first THEN pools[k] ELSE pools[k + 1]])

\* task_pools.into_values().collect()
into_values(found, paths) == [k \in 1..Len(paths) |-> task_pools_insert(found, paths[k])]

\* The end of from_object_file, once every variable is looked at.
from_object_file_pools(debug_info, found, hasher) ==
    IF \E k \in 1..Len(found) : found[k].kind = "Err" THEN ExtractErr
    ELSE [kind |-> "Ok",
          debug_data |->
              [future_types |-> debug_info.future_types,
               task_pools |->
                   sort_unstable_by_key(
                       into_values(found,
                           HashMap_iter({ found[k].task_pool.path :
                                            k \in { j \in 1..Len(found) :
                                                      found[j].kind = "Some" } },
                                        hasher.pools))),
               poll_done_addresses |-> debug_info.poll_done_addresses]]

from_object_file_parsed(debug_info, hasher) ==
    IF debug_info.header = <<>> THEN ExtractErr
    ELSE from_object_file_pools(debug_info,
             [k \in 1..Len(debug_info.variables) |->
                 TaskPool_from_ddbug_var(debug_info.variables[k], debug_info.future_types,
                     debug_info.header[1], debug_info.pool_types,
                     HashMap_iter(DOMAIN debug_info.future_types, hasher.types))],
             hasher)

DebugData_from_object_file(object_file, hasher) ==
    IF object_file.debug_info.kind = "Err" THEN ExtractErr
    ELSE from_object_file_parsed(object_file.debug_info, hasher)

\* Every order of the elements of a set.
Orders(S) ==
    { o \in [1..Cardinality(S) -> S] :
        \A i, j \in 1..Cardinality(S) : i # j => o[i] # o[j] }

\* What the hashers of the two maps may be for an object file.
Hashers(object_file) ==
    IF object_file.debug_info.kind = "Err" THEN { [types |-> <<>>, pools |-> <<>>] }
    ELSE { [types |-> t, pools |-> p] :
             t \in Orders(DOMAIN object_file.debug_info.future_types),
             p \in Orders({ namespace_to_path(object_file.debug_info.variables[k].namespace) :
                              k \in 1..Len(object_file.debug_info.variables) }) }

set_breakpoint(callback, addr, k) ==
    IF callback.breakpoint_fail_at = k THEN [ok |-> FALSE]
    ELSE [ok |-> TRUE, id |-> IF callback.breakpoint_ids = "addr" THEN addr ELSE 6 + k]

NewSelf(debug_data_, ids) ==
    [poll_break_point_ids |-> ids, ui_state |-> UiState_new, debug_data |-> debug_data_,
     last_values |-> <<>>, formating_cache |-> {}]

\* s.handle_event(Event::Redraw, callback)? and Ok(s)
new_redraw(updated, callback) ==
    IF updated.ret = "Panic" THEN updated
    ELSE handle_draw(updated.self, <<>>, callback, updated.calls)

\* A constructor that draws without a first snapshot.
new_inspector_no_snapshot(callback, debug_data_, ids, calls) ==
    IF ~callback.terminal_new_ok THEN Called(NoValue, calls, "Err", FALSE)
    ELSE handle_draw(NewSelf(debug_data_, ids), <<>>, callback, calls)

\* Terminal::new(..)?, s.update_values(callback)
new_inspector(callback, debug_data_, ids, calls) ==
    IF ~callback.terminal_new_ok THEN Called(NoValue, calls, "Err", FALSE)
    ELSE new_redraw(update_values(NewSelf(debug_data_, ids), callback, calls), callback)

RECURSIVE new_breakpoints(_, _, _, _, _)
\* The loop over debug_data.poll_done_addresses, from address k on.
new_breakpoints(callback, debug_data_, ids, calls, k) ==
    IF k > Len(debug_data_.poll_done_addresses)
    THEN new_inspector(callback, debug_data_, ids, calls)
    ELSE IF ~set_breakpoint(callback, debug_data_.poll_done_addresses[k], k).ok
    THEN Called(NoValue,
                Append(calls, SetBreakpointCall(debug_data_.poll_done_addresses[k],
                           set_breakpoint(callback, debug_data_.poll_done_addresses[k], k))),
                "Err", FALSE)
    ELSE new_breakpoints(callback, debug_data_,
             Append(ids, set_breakpoint(callback, debug_data_.poll_done_addresses[k], k).id),
             Append(calls, SetBreakpointCall(debug_data_.poll_done_addresses[k],
                        set_breakpoint(callback, debug_data_.poll_done_addresses[k], k))),
             k + 1)

new_parsed(callback, parsed) ==
    IF parsed.kind = "Err" THEN Called(NoValue, <<GetObjectfilesCall>>, "Err", FALSE)
    ELSE new_breakpoints(callback, parsed.debug_data, <<>>, <<GetObjectfilesCall>>, 1)

\* EmbassyInspector::new
EmbassyInspector_new(callback, hasher) ==
    IF ~callback.objectfiles.ok THEN Called(NoValue, <<GetObjectfilesCall>>, "Err", FALSE)
    ELSE IF callback.objectfiles.files = <<>>
    THEN Called(NoValue, <<GetObjectfilesCall>>, "Err", FALSE)
    ELSE new_parsed(callback,
                    DebugData_from_object_file(callback.objectfiles.files[1], hasher))

(***************************************************************************)
(* The targets the controller is run against.                              *)
(***************************************************************************)
\* A task whose coroutine awaits another coroutine or a timer.
Outer ==
    [members |-> <<Member("x", "u8", 1, 1)>>,
     state_member |-> StateMember(0, 1),
     total_size |-> 4,
     states |-> <<State(U64(0), "Unresumed", <<>>, <<>>),
                  State(U64(1), "Returned", <<>>, <<>>),
                  State(U64(3), "Suspend0", <<0>>, <<Member("__awaitee", "Inner", 2, 2)>>),
                  State(U64(4), "Suspend1", <<0>>, <<Member("__awaitee", "Timer", 2, 1)>>)>>]
Inner ==
    [members |-> <<Member("y", "u8", 1, 1)>>,
     state_member |-> StateMember(0, 1),
     total_size |-> 2,
     states |-> <<State(U64(0), "Unresumed", <<>>, <<>>),
                  State(U64(1), "Returned", <<>>, <<>>),
                  State(U64(3), "Suspend0", <<0>>, <<>>)>>]

\* The variable a task's pool is kept in, and the type of the pool.
PoolVar(namespace, address, size) ==
    [name |-> "POOL", holder |-> "TaskPoolHolder<_, _>", namespace |-> namespace,
     address |-> address, size |-> size]
PoolType(future_name, count, future_offset) ==
    [name |-> "TaskPool<" \o future_name \o ">", count |-> count,
     future_offset |-> future_offset]

\* The name of the coroutine type of a task of the crate `app`.
TaskFuture(task) == "app::__" \o task \o "_task::{async_fn_env#0}"

HeaderU8 == [state_offset |-> 0, state_type |-> "U8"]

\* One pool of one task.
ObjectFile1 ==
    [path |-> "one.elf",
     debug_info |->
        [kind |-> "Ok",
         future_types |->
             [t \in {TaskFuture("main"), "Inner"} |->
                 AsyncFnFuture(IF t = "Inner" THEN Inner ELSE Outer)],
         header |-> <<HeaderU8>>,
         pool_types |-> <<PoolType(TaskFuture("main"), 1, 1)>>,
         variables |-> <<PoolVar(<<"app", "main">>, 4096, 5)>>,
         poll_done_addresses |-> <<256>>]]

\* Two pools, of two tasks and of one, whose futures have the same size.
ObjectFile2 ==
    [path |-> "two.elf",
     debug_info |->
        [kind |-> "Ok",
         future_types |->
             [t \in {TaskFuture("blink"), TaskFuture("tick")} |-> AsyncFnFuture(FSmall)],
         header |-> <<HeaderU8>>,
         pool_types |-> <<PoolType(TaskFuture("blink"), 2, 1),
                          PoolType(TaskFuture("tick"), 1, 1)>>,
         variables |-> <<PoolVar(<<"app", "blink">>, 4096, 6),
                         PoolVar(<<"app", "tick">>, 8192, 3)>>,
         poll_done_addresses |-> <<256, 512>>]]

\* A pool of one task and a pool without a task.
ObjectFile4 ==
    [path |-> "idle.elf",
     debug_info |->
        [kind |-> "Ok",
         future_types |->
             [t \in {TaskFuture("tick"), TaskFuture("idle")} |->
                 AsyncFnFuture(IF t = TaskFuture("tick") THEN FSmall ELSE FTiny)],
         header |-> <<HeaderU8>>,
         pool_types |-> <<PoolType(TaskFuture("tick"), 1, 1),
                          PoolType(TaskFuture("idle"), 0, 1)>>,
         variables |-> <<PoolVar(<<"app", "tick">>, 8192, 3),
                         PoolVar(<<"app", "idle">>, 12288, 0)>>,
         poll_done_addresses |-> <<256>>]]

\* A file without usable debug info.
ObjectFile3 == [path |-> "bad.elf", debug_info |-> [kind |-> "Err"]]

\* What get_objectfiles may answer.
ObjectfilesAnswers ==
    { [ok |-> FALSE, files |-> <<>>], [ok |-> TRUE, files |-> <<>>],
      [ok |-> TRUE, files |-> <<ObjectFile1>>],
      [ok |-> TRUE, files |-> <<ObjectFile2, ObjectFile1>>],
      [ok |-> TRUE, files |-> <<ObjectFile3>>] }

\* The answer of get_objectfiles for a program with a pool of no task.
EmptyPoolAnswers == { [ok |-> TRUE, files |-> <<ObjectFile4>>] }

\* What the memory of a pool may hold when the target is stopped.
PoolImages(task_pool) ==
    CASE task_pool.path = "app::main" ->
             { <<0, 0, 0, 0, 0>>, <<1, 3, 7, 3, 9>>, <<1, 4, 7, 5, 0>>, <<1, 9, 0, 0, 0>> }
      [] task_pool.path = "app::blink" -> { <<0, 0, 0, 1, 3, 7>>, <<1, 3, 8, 1, 1, 0>> }
      [] task_pool.path = "app::tick" -> { <<0, 0, 0>>, <<1, 3, 7>> }
      [] task_pool.path = "app::idle" -> { <<>> }

\* What read_memory may answer for a pool: an error, or the bytes asked for.
ReadOutcomes(task_pool) ==
    { [ok |-> FALSE, bytes |-> <<>>] }
        \cup { [ok |-> TRUE, bytes |-> b] : b \in PoolImages(task_pool) }

ReadsOf(task_pools) ==
    { r \in [1..Len(task_pools) ->
                UNION { ReadOutcomes(task_pools[k]) : k \in 1..Len(task_pools) }] :
        \A k \in 1..Len(task_pools) : r[k] \in ReadOutcomes(task_pools[k]) }

\* The reads of the snapshot of the constructor.
ReadsOfParsed(parsed) ==
    IF parsed.kind = "Ok" THEN ReadsOf(parsed.debug_data.task_pools) ELSE { <<>> }
ReadsAtNew(objectfiles, hasher) ==
    IF objectfiles.ok /\ objectfiles.files # <<>>
    THEN ReadsOfParsed(DebugData_from_object_file(objectfiles.files[1], hasher))
    ELSE { <<>> }

\* The hashers of the maps the constructor builds.
HashersAtNew(objectfiles) ==
    IF objectfiles.ok /\ objectfiles.files # <<>>
    THEN Hashers(objectfiles.files[1])
    ELSE { [types |-> <<>>, pools |-> <<>>] }

\* The types the adapter can format.
FormattedTypes == {"u8"}

Clicks ==
    { [button |-> "Left", pos |-> [x |-> x, y |-> y]] :
          x \in {0, 2, 4}, y \in {0, 1, 2, 3, 7, 12} }
        \cup { [button |-> b, pos |-> [x |-> 0, y |-> 0]] : b \in {"Middle", "Right"} }
Scrolls == {-1, 1, 3}
BreakpointIds == {256, 7, 8}

(***************************************************************************)
(* The controller as a state machine: the backend constructs the inspector *)
(* and then sends it events, one call of handle_event per step.            *)
(***************************************************************************)
RIdle ==
    /\ r_pc = "idle"
    /\ r_in = NoValue
    /\ r_out = NoValue

Init ==
    /\ status = "new"
    /\ debug_data = NoValue
    /\ poll_break_point_ids = <<>>
    /\ last_values = <<>>
    /\ formating_cache = {}
    /\ page_stack = <<>>
    /\ trace = NoValue
    /\ RIdle

Self ==
    [poll_break_point_ids |-> poll_break_point_ids, ui_state |-> page_stack,
     debug_data |-> debug_data, last_values |-> last_values,
     formating_cache |-> formating_cache]

IsReadMemory(c) == c.call = "read_memory"

\* The call took a snapshot, the call before it took one as well, and the
\* target answered the reads of both in the same way.
Repeats(event, called) ==
    /\ status = "ready"
    /\ event.kind \in {"Breakpoint", "Stoped"}
    /\ trace.event.kind \in {"new", "Breakpoint", "Stoped"}
    /\ SelectSeq(called.calls, IsReadMemory) = SelectSeq(trace.calls, IsReadMemory)

\* What the last call was and did.
Trace(event, callback, called) ==
    [event |-> event, calls |-> called.calls, ret |-> called.ret, drawn |-> called.drawn,
     terminal_ok |-> callback.terminal_ok, repeats |-> Repeats(event, called),
     applied |-> called.applied]

\* The state after a call that left an inspector behind.
Becomes(called) ==
    /\ debug_data' = called.self.debug_data
    /\ poll_break_point_ids' = called.self.poll_break_point_ids
    /\ last_values' = called.self.last_values
    /\ formating_cache' = called.self.formating_cache
    /\ page_stack' = called.self.ui_state

Constructed(callback, called) ==
    /\ trace' = Trace([kind |-> "new"], callback, called)
    /\ IF called.ret = "Ok"
       THEN status' = "ready" /\ Becomes(called)
       ELSE /\ status' = IF called.ret = "Err" THEN "failed" ELSE "panicked"
            /\ UNCHANGED <<debug_data, poll_break_point_ids, last_values,
                           formating_cache, page_stack>>
    /\ UNCHANGED r_vars

Handled(event, callback, called) ==
    /\ trace' = Trace(event, callback, called)
    /\ status' = IF called.ret \in {"Ok", "Err"} THEN "ready" ELSE "panicked"
    /\ Becomes(called)
    /\ UNCHANGED r_vars

\* The backend constructs the inspector, get_objectfiles answering with one
\* of `answers`.
ConstructWith(answers) ==
    /\ status = "new"
    /\ \E objectfiles \in answers, ids \in {"addr", "fresh"}, fail_at \in 0..2,
          terminal_new_ok \in BOOLEAN, terminal_ok \in BOOLEAN :
          \E hasher \in HashersAtNew(objectfiles) :
              \E reads \in ReadsAtNew(objectfiles, hasher) :
                  Constructed([terminal_ok |-> terminal_ok],
                      EmbassyInspector_new(
                          [objectfiles |-> objectfiles, breakpoint_ids |-> ids,
                           breakpoint_fail_at |-> fail_at,
                           terminal_new_ok |-> terminal_new_ok,
                           reads |-> reads, resume_ok |-> TRUE, formats |-> FormattedTypes,
                           terminal_ok |-> terminal_ok],
                          hasher))

Construct == ConstructWith(ObjectfilesAnswers)

\* The answers of an adapter while the target runs: its memory cannot be
\* read.  Once the inspector is constructed the terminal is taken to accept
\* every frame.
DrawCallbacks ==
    { [reads |-> [k \in 1..Len(debug_data.task_pools) |-> [ok |-> FALSE, bytes |-> <<>>]],
       resume_ok |-> TRUE, formats |-> FormattedTypes, terminal_ok |-> TRUE] }
\* The answers of an adapter during a snapshot.
SnapshotCallbacks ==
    { [reads |-> r, resume_ok |-> o, formats |-> FormattedTypes, terminal_ok |-> TRUE] :
          r \in ReadsOf(debug_data.task_pools), o \in BOOLEAN }

HandleRedraw ==
    /\ status = "ready"
    /\ \E callback \in DrawCallbacks :
          Handled([kind |-> "Redraw"], callback,
                  handle_event(Self, [kind |-> "Redraw"], callback))

HandleClick ==
    /\ status = "ready"
    /\ \E click \in Clicks, callback \in DrawCallbacks :
          Handled([kind |-> "Click"], callback,
                  handle_event(Self, [kind |-> "Click", click |-> click], callback))

HandleScroll ==
    /\ status = "ready"
    /\ \E scroll \in Scrolls, callback \in DrawCallbacks :
          Handled([kind |-> "Scroll"], callback,
                  handle_event(Self, [kind |-> "Scroll", scroll |-> scroll], callback))

HandleBreakpoint ==
    /\ status = "ready"
    /\ \E id \in BreakpointIds, callback \in SnapshotCallbacks :
          Handled([kind |-> "Breakpoint", id |-> id], callback,
                  handle_event(Self, [kind |-> "Breakpoint", id |-> id], callback))

HandleStoped ==
    /\ status = "ready"
    /\ \E callback \in { c \in SnapshotCallbacks : c.resume_ok } :
          Handled([kind |-> "Stoped"], callback,
                  handle_event(Self, [kind |-> "Stoped"], callback))

Next ==
    \/ Construct
    \/ HandleRedraw
    \/ HandleClick
    \/ HandleScroll
    \/ HandleBreakpoint
    \/ HandleStoped

Spec == Init /\ [][Next]_vars

(***************************************************************************)
(* The controller on a program that has a task pool without a task.        *)
(***************************************************************************)
ConstructEmptyPool == ConstructWith(EmptyPoolAnswers)

NextEmptyPool ==
    \/ ConstructEmptyPool
    \/ HandleRedraw
    \/ HandleClick
    \/ HandleScroll
    \/ HandleBreakpoint
    \/ HandleStoped

SpecEmptyPool == Init /\ [][NextEmptyPool]_vars

(***************************************************************************)
(* The extraction on its own: an object file is drawn, and the model is    *)
(* built from it twice, each time with hashers of its own.                 *)
(***************************************************************************)
\* The variables an object file may hold: the pools of the tasks blink,
\* tick and blink_task_slow, the pool of a task whose coroutine is no
\* future type of the file, and a variable that is no pool.
ExtractVariables ==
    { PoolVar(<<"app", "blink">>, 4096, 6),
      PoolVar(<<"app", "tick">>, 8192, 3),
      PoolVar(<<"app", "blink_task_slow">>, 12288, 5),
      PoolVar(<<"app", "orphan">>, 16384, 3),
      [PoolVar(<<"app", "ticks">>, 20480, 4) EXCEPT !.name = "TICKS"] }

\* The debug info of a program with the given variables: the coroutine
\* types of the tasks it has, but for the task orphan, and the pool types.
ExtractDebugInfo(variables) ==
    [kind |-> "Ok",
     future_types |->
         [t \in { TaskFuture(variables[k].namespace[2]) :
                    k \in { j \in 1..Len(variables) :
                              variables[j].namespace[2]
                                  \in {"blink", "tick", "blink_task_slow"} } } |->
             AsyncFnFuture(IF t = TaskFuture("blink_task_slow") THEN Outer ELSE FSmall)],
     header |-> <<HeaderU8>>,
     pool_types |-> <<PoolType(TaskFuture("blink"), 2, 1),
                      PoolType(TaskFuture("tick"), 1, 1),
                      PoolType(TaskFuture("blink_task_slow"), 1, 1),
                      PoolType(TaskFuture("orphan"), 1, 1)>>,
     variables |-> variables,
     poll_done_addresses |-> <<256>>]

\* The object files: up to three of the variables, in any order, and a
\* file without a TaskHeader.
ExtractFiles ==
    { [path |-> "app.elf", debug_info |-> ExtractDebugInfo(v)] :
        v \in UNION { { o \in Orders(S) : TRUE } :
                        S \in { T \in SUBSET ExtractVariables :
                                  Cardinality(T) \in 1..3 } } }
        \cup { [path |-> "app.elf",
                debug_info |-> [ExtractDebugInfo(<<PoolVar(<<"app", "tick">>, 8192, 3)>>)
                                   EXCEPT !.header = <<>>]],
               ObjectFile3 }

ExtractInit ==
    /\ CtlIdle
    /\ r_in \in { [kind |-> "object_file", object_file |-> f] : f \in ExtractFiles }
    /\ r_pc = "extract"
    /\ r_out = <<>>

\* DebugData::from_object_file(path)
Extract ==
    /\ r_pc = "extract"
    /\ \E hasher \in Hashers(r_in.object_file) :
          r_out' = <<DebugData_from_object_file(r_in.object_file, hasher)>>
    /\ r_pc' = "extracted"
    /\ UNCHANGED <<r_in, ctl_vars>>

\* DebugData::from_object_file(path) once more, on the same file.
ExtractAgain ==
    /\ r_pc = "extracted"
    /\ \E hasher \in Hashers(r_in.object_file) :
          r_out' = Append(r_out, DebugData_from_object_file(r_in.object_file, hasher))
    /\ r_pc' = "again"
    /\ UNCHANGED <<r_in, ctl_vars>>

ExtractNext == Extract \/ ExtractAgain

SpecExtract == ExtractInit /\ [][ExtractNext]_vars

(***************************************************************************)
(* ScrollView::render_widget with the buffer it draws into.  A Buffer is   *)
(* ratatui's: an area and its cells in row-major order.  The widget is a   *)
(* Text as in the tests of scroll_view.rs: it puts its cell <<row, col>>   *)
(* at row, col of the area it is given and clips at the buffer.            *)
(***************************************************************************)
MaxScroll == 3
MaxCoord == 4
MaxExtent == 3

Blank == <<>>

\* Buffer::empty(area)
Buffer_empty(area) ==
    [area |-> area, content |-> [i \in 0..(area.width * area.height - 1) |-> Blank]]

\* Text::render(area, buf): the cells of the widget inside area and buf.
Text_render(area, buf) ==
    [buf EXCEPT !.content =
        [i \in DOMAIN buf.content |->
            IF Rect_contains(Rect_intersection(area, buf.area),
                             [x |-> buf.area.x + (i % buf.area.width),
                              y |-> buf.area.y + (i \div buf.area.width)])
            THEN <<buf.area.y + (i \div buf.area.width) - area.y,
                   buf.area.x + (i % buf.area.width) - area.x>>
            ELSE buf.content[i]]]

\* content[start..][..len] is out of range.
SlicePanics(content_len, start, len) == start > content_len \/ len > content_len - start

\* Some line of the copy loop slices out of range.
CopyPanics(buf, virtual_buff, overlap, buff_area_y) ==
    \E buff_line \in overlap.y..(overlap.y + overlap.height - 1) :
        \/ SlicePanics(buf.area.width * buf.area.height,
                       buf.area.width * buff_line + overlap.x, overlap.width)
        \/ SlicePanics(virtual_buff.area.width * virtual_buff.area.height,
                       virtual_buff.area.width * (buff_line - buff_area_y), overlap.width)

\* The copy loop: the lines of overlap are taken from the virtual buffer.
CopyLines(buf, virtual_buff, overlap, buff_area_y) ==
    [buf EXCEPT !.content =
        [i \in DOMAIN buf.content |->
            IF /\ i \div buf.area.width >= overlap.y
               /\ i \div buf.area.width < overlap.y + overlap.height
               /\ i >= buf.area.width * (i \div buf.area.width) + overlap.x
               /\ i < buf.area.width * (i \div buf.area.width) + overlap.x + overlap.width
            THEN virtual_buff.content[
                     virtual_buff.area.width * ((i \div buf.area.width) - buff_area_y)
                         + (i - (buf.area.width * (i \div buf.area.width) + overlap.x))]
            ELSE buf.content[i]]]

\* The geometry of a ScrollView with the given buffer.
ScrollView_geometry(self) ==
    [width |-> self.buf.area.width, height |-> self.buf.area.height,
     scroll |-> self.scroll, next_y |-> self.next_y]

\* The virtual buffer render_widget draws a cut widget into.
ScrollView_virtual_buff(self, area) ==
    Text_render(Rect(0, 0, saturating_sub(self.buf.area.width, area.x), area.height),
                Buffer_empty(Rect(0, 0, saturating_sub(self.buf.area.width, area.x),
                                  area.height)))

\* ScrollView::render_widget(widget, area): the ScrollView after the call
\* and the rect returned, or a panic.
ScrollView_render_widget_buf(self, area) ==
    IF \/ area.y - self.scroll + area.height <= 0
       \/ area.y - self.scroll >= self.buf.area.height
    THEN [kind |-> "Ok",
          self |-> [self EXCEPT !.next_y = Max(@, area.y + area.height)],
          rect |-> ScrollView_render_widget(ScrollView_geometry(self), area)]
    ELSE IF /\ area.y - self.scroll >= 0
            /\ area.y - self.scroll + area.height <= self.buf.area.height
    THEN [kind |-> "Ok",
          self |-> [self EXCEPT !.next_y = Max(@, area.y + area.height),
                                !.buf = Text_render(Rect(area.x, area.y - self.scroll,
                                                         area.width, area.height), @)],
          rect |-> ScrollView_render_widget(ScrollView_geometry(self), area)]
    ELSE IF CopyPanics(self.buf, ScrollView_virtual_buff(self, area),
                       ScrollView_render_widget(ScrollView_geometry(self), area),
                       area.y - self.scroll)
    THEN Panic
    ELSE [kind |-> "Ok",
          self |-> [self EXCEPT !.next_y = Max(@, area.y + area.height),
                                !.buf = CopyLines(@, ScrollView_virtual_buff(self, area),
                                                  ScrollView_render_widget(
                                                      ScrollView_geometry(self), area),
                                                  area.y - self.scroll)],
          rect |-> ScrollView_render_widget(ScrollView_geometry(self), area)]

\* ScrollView::new(frame, scroll) with its buffer.
ScrollView_new_buf(frame, scroll) ==
    [buf |-> Buffer_empty(Rect(0, 0, frame.width, frame.height)),
     scroll |-> scroll, next_y |-> 0]

\* The views and widget areas of the tests of scroll_view.rs, and around.
ScrollFrames == { [width |-> 2, height |-> 3], [width |-> 3, height |-> 4] }

ScrollAreas ==
    { Rect(x, y, width, height) :
        x \in 0..MaxCoord, y \in 0..MaxCoord,
        width \in 0..MaxExtent, height \in 0..MaxExtent }

ScrollInit ==
    /\ CtlIdle
    /\ r_in \in { [kind |-> "scroll_view", frame |-> frame, scroll |-> scroll,
                   area |-> area] :
                    frame \in ScrollFrames, scroll \in (0 - 2)..MaxScroll,
                    area \in ScrollAreas }
    /\ r_pc = "render_widget"
    /\ r_out = NoValue

\* ScrollView::new(frame, scroll).render_widget(widget, area)
RenderWidget ==
    /\ r_pc = "render_widget"
    /\ r_out' = ScrollView_render_widget_buf(ScrollView_new_buf(r_in.frame, r_in.scroll),
                                             r_in.area)
    /\ r_pc' = "done"
    /\ UNCHANGED <<r_in, ctl_vars>>

ScrollNext == RenderWidget

SpecScroll == ScrollInit /\ [][ScrollNext]_vars

(***************************************************************************)
(* normalize_name of async-inspect's debug_reader: the names of a future   *)
(* in the debug info and from std::any::type_name made comparable.         *)
(***************************************************************************)
MaxNameLen == 6

State_Path == [kind |-> "Path"]
State_Virtual(level) == [kind |-> "Virtual", level |-> level]

\* name.find(&['{', '}']): the 0-based index of the first brace, if any.
find_brace(name) ==
    IF \E i \in 1..Len(name) : SubSeq(name, i, i) \in {"{", "}"}
    THEN <<CHOOSE i \in 0..(Len(name) - 1) :
               /\ SubSeq(name, i + 1, i + 1) \in {"{", "}"}
               /\ \A j \in 0..(i - 1) : SubSeq(name, j + 1, j + 1) \notin {"{", "}"}>>
    ELSE <<>>

\* A '}' that ends the group whatever the level.
State_close_flat(level) == State_Path

\* The state after a '}' in State::Virtual(level).
State_close(level) == IF level = 1 THEN State_Path ELSE State_Virtual(level - 1)

\* The while loop of normalize_name and the push of the rest, from the
\* name left, the output so far and the state.
RECURSIVE normalize_name_loop(_, _, _)
normalize_name_loop(name, nor, state) ==
    IF find_brace(name) = <<>> THEN [kind |-> "Ok", nor |-> nor \o name]
    ELSE IF SubSeq(name, find_brace(name)[1] + 1, find_brace(name)[1] + 1) = "{"
    THEN IF state.kind = "Path"
         THEN normalize_name_loop(SubSeq(name, find_brace(name)[1] + 2, Len(name)),
                                  nor \o SubSeq(name, 1, find_brace(name)[1]),
                                  State_Virtual(1))
         ELSE normalize_name_loop(SubSeq(name, find_brace(name)[1] + 2, Len(name)),
                                  nor, State_Virtual(state.level + 1))
    ELSE IF state.kind = "Path"
         THEN Panic
         ELSE normalize_name_loop(SubSeq(name, find_brace(name)[1] + 2, Len(name)),
                                  IF state.level = 1 THEN nor \o "_" ELSE nor,
                                  State_close(state.level))

normalize_name(name) == normalize_name_loop(name, "", State_Path)

\* The characters names are made of here.
NameChars == {"f", ":", "{", "}"}

RECURSIVE NamesUpTo(_)
NamesUpTo(n) ==
    IF n = 0 THEN {""}
    ELSE NamesUpTo(n - 1) \cup { s \o c : s \in NamesUpTo(n - 1), c \in NameChars }

\* The nesting of braces after the first n characters of a name.
RECURSIVE Nesting(_, _)
Nesting(name, n) ==
    IF n = 0 THEN 0
    ELSE Nesting(name, n - 1)
             + (IF SubSeq(name, n, n) = "{" THEN 1
                ELSE IF SubSeq(name, n, n) = "}" THEN 0 - 1 ELSE 0)

\* The braces of a name pair up, as in the names the compiler makes.
Balanced(name) ==
    /\ Nesting(name, Len(name)) = 0
    /\ \A n \in 0..Len(name) : Nesting(name, n) >= 0

\* The two names of the futures of tests::normalize_paths_eq, shortened.
DebugName == "s::f::{closure_env#0}<s::g::{closure_env#0}>"
TypeName == "s::f::{{closure}}<s::g::{{closure}}>"

NormalizeInputs ==
    { [kind |-> "name", name |-> n, type_name |-> n] :
        n \in { s \in NamesUpTo(MaxNameLen) : Balanced(s) } }
    \cup { [kind |-> "name", name |-> DebugName, type_name |-> TypeName],
           [kind |-> "name", name |-> "f::{f}:{}", type_name |-> "f::{{:}{}}:{{}}"],
           [kind |-> "name", name |-> "f::{f}", type_name |-> "f:::{f}"] }

NormalizeInit ==
    /\ CtlIdle
    /\ r_in \in NormalizeInputs
    /\ r_pc = "normalize"
    /\ r_out = <<>>

\* normalize_name of the debug-info name and of the type name.
Normalize ==
    /\ r_pc = "normalize"
    /\ r_out' = <<normalize_name(r_in.name), normalize_name(r_in.type_name)>>
    /\ r_pc' = "normalized"
    /\ UNCHANGED <<r_in, ctl_vars>>

\* normalize_name of the results.
NormalizeAgain ==
    /\ r_pc = "normalized"
    /\ r_out[1].kind = "Ok" /\ r_out[2].kind = "Ok"
    /\ r_out' = r_out \o <<normalize_name(r_out[1].nor), normalize_name(r_out[2].nor)>>
    /\ r_pc' = "again"
    /\ UNCHANGED <<r_in, ctl_vars>>

NormalizeNext == Normalize \/ NormalizeAgain

SpecNormalize == NormalizeInit /\ [][NormalizeNext]_vars

(***************************************************************************)
(* AsyncFnType::from_ddbug_struct: the layout of a coroutine read from the *)
(* debug info.  A ddbug struct has variant parts (each a list of variants  *)
(* with their members), its own members and a byte size; a ddbug member    *)
(* has a name and a bit size that may be missing.                          *)
(***************************************************************************)
MaxVariantMembers == 2

DdbugMember(name, ty, bit_offset, bit_size) ==
    [name |-> name, ty |-> ty, bit_offset |-> bit_offset, bit_size |-> bit_size]

DdbugVariant(name, discriminant_value, members) ==
    [name |-> name, discriminant_value |-> discriminant_value, members |-> members]

\* Member::from_ddbug_member
Member_from_ddbug_member(member) ==
    IF member.name = <<>> THEN ExtractErr
    ELSE IF member.bit_size = <<>> THEN ExtractErr
    ELSE [kind |-> "Ok",
          member |-> Member(member.name[1], member.ty, member.bit_offset \div 8,
                            member.bit_size[1] \div 8)]

\* member_to_id.get(&member): the id the member was pushed at, if it was.
member_to_id_get(members, member) ==
    IF \E i \in 1..Len(members) : members[i] = member
    THEN <<(CHOOSE i \in 1..Len(members) :
                /\ members[i] = member
                /\ \A j \in 1..(i - 1) : members[j] # member) - 1>>
    ELSE <<>>

\* An insertion of a member that is always new.
members_pushed_always(members, member) == Append(members, member)

\* members after the match on member_to_id.get(&member).
members_pushed(members, member) ==
    IF member_to_id_get(members, member) = <<>> THEN Append(members, member) ELSE members

\* id of the match on member_to_id.get(&member).
member_id(members, member) ==
    IF member_to_id_get(members, member) = <<>> THEN Len(members)
    ELSE member_to_id_get(members, member)[1]

\* A push of the id whether or not it is there.
active_members_pushed_always(active_members, id) == Append(active_members, id)

\* if !active_members.contains(&id) { active_members.push(id) }
active_members_pushed(active_members, id) ==
    IF \E k \in 1..Len(active_members) : active_members[k] = id
    THEN active_members ELSE Append(active_members, id)

\* The loop over the members of one variant, from its k-th member on.
RECURSIVE variant_members_loop(_, _, _, _, _)
RECURSIVE variant_members_body(_, _, _, _, _, _)
variant_members_loop(ddbug_members, k, members, active_members, awaitee) ==
    IF k > Len(ddbug_members)
    THEN [kind |-> "Ok", members |-> members, active_members |-> active_members,
          awaitee |-> awaitee]
    ELSE IF Member_from_ddbug_member(ddbug_members[k]).kind = "Err" THEN ExtractErr
    ELSE variant_members_body(ddbug_members, k, members, active_members, awaitee,
                              Member_from_ddbug_member(ddbug_members[k]).member)

variant_members_body(ddbug_members, k, members, active_members, awaitee, member) ==
    IF member.name = "__awaitee"
    THEN IF awaitee # <<>> THEN ExtractErr
         ELSE variant_members_loop(ddbug_members, k + 1, members, active_members,
                                   <<member>>)
    ELSE IF member.size = 0
    THEN variant_members_loop(ddbug_members, k + 1, members, active_members, awaitee)
    ELSE variant_members_loop(ddbug_members, k + 1, members_pushed(members, member),
                              active_members_pushed(active_members,
                                                    member_id(members, member)),
                              awaitee)

\* State::from_ddbug_variant
State_from_ddbug_variant(variant, active_members, awaitee) ==
    IF variant.discriminant_value = <<>> THEN ExtractErr
    ELSE [kind |-> "Ok",
          state |-> State(U64(variant.discriminant_value[1]),
                          IF variant.name = <<>> THEN "<unknown>" ELSE variant.name[1],
                          active_members, awaitee)]

\* The loop over the variants, from the k-th on.
RECURSIVE variants_loop(_, _, _, _)
RECURSIVE variants_body(_, _, _, _)
variants_loop(variants, k, members, states) ==
    IF k > Len(variants) THEN [kind |-> "Ok", members |-> members, states |-> states]
    ELSE variants_body(variants, k, states,
                       variant_members_loop(variants[k].members, 1, members, <<>>, <<>>))

variants_body(variants, k, states, looped) ==
    IF looped.kind = "Err" THEN ExtractErr
    ELSE IF State_from_ddbug_variant(variants[k], looped.active_members,
                                     looped.awaitee).kind = "Err"
    THEN ExtractErr
    ELSE variants_loop(variants, k + 1, looped.members,
                       Append(states,
                              State_from_ddbug_variant(variants[k], looped.active_members,
                                                       looped.awaitee).state))

\* The end of from_ddbug_struct before the sort: the state member and the
\* size.
from_ddbug_struct_self(ddbug_type, looped) ==
    IF looped.kind = "Err" THEN ExtractErr
    ELSE IF Len(ddbug_type.members) # 1 THEN ExtractErr
    ELSE IF Member_from_ddbug_member(ddbug_type.members[1]).kind = "Err" THEN ExtractErr
    ELSE IF Member_from_ddbug_member(ddbug_type.members[1]).member.name # "__state"
    THEN ExtractErr
    ELSE IF ddbug_type.byte_size = <<>> THEN ExtractErr
    ELSE [kind |-> "Ok",
          self |-> [members |-> looped.members,
                    state_member |-> Member_from_ddbug_member(ddbug_type.members[1]).member,
                    total_size |-> ddbug_type.byte_size[1],
                    states |-> looped.states]]

\* from_ddbug_struct up to the call of sort_members_by_offset.
from_ddbug_struct_unsorted(ddbug_type) ==
    IF Len(ddbug_type.variant_parts) # 1 THEN ExtractErr
    ELSE from_ddbug_struct_self(ddbug_type,
                                variants_loop(ddbug_type.variant_parts[1], 1, <<>>, <<>>))

\* Vec<usize>::sort_unstable
RECURSIVE sort_unstable(_)
sort_unstable(ids) ==
    IF ids = <<>> THEN <<>>
    ELSE <<CHOOSE m \in { ids[k] : k \in 1..Len(ids) } :
               \A k \in 1..Len(ids) : m <= ids[k]>>
         \o sort_unstable(
                SubSeq(ids, 1,
                       (CHOOSE i \in 1..Len(ids) :
                            \A k \in 1..Len(ids) : ids[i] <= ids[k]) - 1)
                \o SubSeq(ids,
                          (CHOOSE i \in 1..Len(ids) :
                               \A k \in 1..Len(ids) : ids[i] <= ids[k]) + 1,
                          Len(ids)))

\* What old_ids.sort_unstable_by_key(|id| members[id].offset) may give: the
\* ids in an order of ascending offset, members of one offset in any order.
SortedOldIds(members) ==
    { old_ids \in Orders(0..(Len(members) - 1)) :
        \A i, j \in 1..Len(members) :
            i < j => members[old_ids[i] + 1].offset <= members[old_ids[j] + 1].offset }

\* new_ids[old_id] = new_id
new_id_of(old_ids, old_id) == (CHOOSE n \in 1..Len(old_ids) : old_ids[n] = old_id) - 1

\* A sort that moves the members and leaves the ids of the states.
sort_members_by_offset_only(self, old_ids) ==
    [self EXCEPT !.members = [n \in 1..Len(old_ids) |-> self.members[old_ids[n] + 1]]]

\* AsyncFnType::sort_members_by_offset, with the sorted old_ids.
sort_members_by_offset(self, old_ids) ==
    [self EXCEPT
        !.members = [n \in 1..Len(old_ids) |-> self.members[old_ids[n] + 1]],
        !.states = [s \in 1..Len(self.states) |->
                       [self.states[s] EXCEPT
                           !.active_members =
                               sort_unstable([a \in 1..Len(@) |->
                                                 new_id_of(old_ids, @[a])])]]]

\* The members the debug info of the coroutines here is made of: locals a
\* and c that share a byte, b behind them, a zero-sized z, the awaitee and
\* h, half a byte and a bit wide.
DdbugMembers ==
    { DdbugMember(<<"b">>, "u8", 24, <<8>>),
      DdbugMember(<<"a">>, "u8", 8, <<8>>),
      DdbugMember(<<"c">>, "u8", 8, <<8>>),
      DdbugMember(<<"z">>, "()", 8, <<0>>),
      DdbugMember(<<"__awaitee">>, "Timer", 16, <<8>>),
      DdbugMember(<<"h">>, "u8", 16, <<12>>) }

RECURSIVE SeqsUpTo(_, _)
SeqsUpTo(S, n) ==
    IF n = 0 THEN { <<>> }
    ELSE SeqsUpTo(S, n - 1)
             \cup { Append(s, x) : s \in { t \in SeqsUpTo(S, n - 1) : Len(t) = n - 1 },
                                   x \in S }

DdbugState(bit_size) == DdbugMember(<<"__state">>, "u8", 0, bit_size)

DdbugStruct(variants, members, byte_size) ==
    [variant_parts |-> <<variants>>, members |-> members, byte_size |-> byte_size]

\* The coroutines: two variants of all the members above with a state byte,
\* three variants that share a member, and coroutines whose state member
\* or variants are not what the compiler makes.
DdbugStructs ==
    { DdbugStruct(<<DdbugVariant(<<"Unresumed">>, <<0>>, m0),
                    DdbugVariant(<<"Suspend0">>, <<3>>, m3)>>,
                  <<DdbugState(<<8>>)>>, <<4>>) :
        m0, m3 \in SeqsUpTo(DdbugMembers, MaxVariantMembers) }
    \cup
    { DdbugStruct(<<DdbugVariant(<<"Unresumed">>, <<0>>,
                                 <<DdbugMember(<<"b">>, "u8", 24, <<8>>), m>>),
                    DdbugVariant(<<"Suspend0">>, <<3>>,
                                 <<DdbugMember(<<"b">>, "u8", 24, <<8>>), m,
                                   DdbugMember(<<"b">>, "u8", 24, <<8>>)>>),
                    DdbugVariant(<<>>, <<4>>,
                                 <<m, DdbugMember(<<"b">>, "u8", 24, <<8>>)>>)>>,
                  <<DdbugState(<<8>>)>>, <<4>>) :
        m \in DdbugMembers }
    \cup
    { DdbugStruct(<<DdbugVariant(<<"Unresumed">>, <<0>>, <<>>),
                    DdbugVariant(<<"Suspend0">>, d,
                                 <<DdbugMember(n, "u8", 32, <<8>>)>>)>>,
                  state, size) :
        d \in {<<>>, <<3>>}, n \in {<<>>, <<"a">>},
        state \in { <<DdbugState(<<8>>)>>, <<DdbugState(<<16>>)>>, <<DdbugState(<<24>>)>>,
                    <<DdbugState(<<12>>)>>, <<DdbugState(<<4>>)>>, <<DdbugState(<<>>)>>,
                    <<DdbugMember(<<"state">>, "u8", 0, <<8>>)>>, <<>>,
                    <<DdbugState(<<8>>), DdbugState(<<8>>)>> },
        size \in {<<>>, <<5>>} }
    \cup
    { [variant_parts |-> <<>>, members |-> <<DdbugState(<<8>>)>>, byte_size |-> <<4>>] }

AsyncFnTypeInit ==
    /\ CtlIdle
    /\ r_in \in { [kind |-> "ddbug_struct", ddbug_type |-> t] : t \in DdbugStructs }
    /\ r_pc = "from_ddbug_struct"
    /\ r_out = NoValue

\* AsyncFnType::from_ddbug_struct(ddbug_type, file_hash); unsorted is the
\* layout as it was when sort_members_by_offset was called.
FromDdbugStruct ==
    /\ r_pc = "from_ddbug_struct"
    /\ IF from_ddbug_struct_unsorted(r_in.ddbug_type).kind = "Err"
       THEN r_out' = ExtractErr
       ELSE \E old_ids \in SortedOldIds(from_ddbug_struct_unsorted(r_in.ddbug_type)
                                            .self.members) :
                r_out' = [kind |-> "Ok",
                          unsorted |-> from_ddbug_struct_unsorted(r_in.ddbug_type).self,
                          async_fn_type |->
                              sort_members_by_offset(
                                  from_ddbug_struct_unsorted(r_in.ddbug_type).self,
                                  old_ids),
                          value |-> <<>>]
    /\ r_pc' = "extracted"
    /\ UNCHANGED <<r_in, ctl_vars>>

\* AsyncFnValue::new on the layout extracted, for a coroutine whose bytes
\* are all b.
ReifyExtracted ==
    /\ r_pc = "extracted"
    /\ r_out.kind = "Ok"
    /\ \E b \in {0, 3} :
           r_out' = [r_out EXCEPT
                        !.value = <<AsyncFnValue_new(r_out.async_fn_type,
                                                     [i \in 1..r_out.async_fn_type.total_size
                                                          |-> b],
                                                     ReifyFutureTypes, MaxDepth)>>]
    /\ r_pc' = "reified"
    /\ UNCHANGED <<r_in, ctl_vars>>

AsyncFnTypeNext == FromDdbugStruct \/ ReifyExtracted

SpecAsyncFnType == AsyncFnTypeInit /\ [][AsyncFnTypeNext]_vars

(***************************************************************************)
(* find_poll_function_addresses: where the executor's poll closure ends.   *)
(* A file is its units, a unit its functions; a function has an id, names  *)
(* that may be missing, address ranges, an inline mark and the functions   *)
(* inlined into it, which have an abstract origin, ranges and inlined      *)
(* functions of their own.                                                 *)
(***************************************************************************)
MaxInlined == 2

Range(begin, end) == [begin |-> begin, end |-> end]

InlinedFunction(abstract_origin, ranges, inlined_functions) ==
    [abstract_origin |-> abstract_origin, ranges |-> ranges,
     inlined_functions |-> inlined_functions]

Function(id, name, linkage_name, namespace, ranges, is_inline, inlined_functions) ==
    [id |-> id, name |-> name, linkage_name |-> linkage_name, namespace |-> namespace,
     ranges |-> ranges, is_inline |-> is_inline, inlined_functions |-> inlined_functions]

\* str::contains
str_contains(s, pat) ==
    \E i \in 1..(Len(s) - Len(pat) + 1) : SubSeq(s, i, i + Len(pat) - 1) = pat

\* str::ends_with
ends_with(s, suffix) ==
    Len(s) >= Len(suffix) /\ SubSeq(s, Len(s) - Len(suffix) + 1, Len(s)) = suffix

\* The let chain that tells the poll closure of the executor.
is_poll_closure(unit_fn) ==
    /\ unit_fn.name # <<>>
    /\ str_contains(unit_fn.name[1], "{closure")
    /\ unit_fn.linkage_name # <<>>
    /\ str_contains(unit_fn.linkage_name[1], "SyncExecutor")
    /\ unit_fn.namespace # <<>>
    /\ starts_with(namespace_to_path(unit_fn.namespace[1]), "embassy_executor::raw")
    /\ ends_with(namespace_to_path(unit_fn.namespace[1]), "poll")

\* The functions of all units, in the order the loops meet them.
RECURSIVE unit_functions(_)
unit_functions(units) ==
    IF units = <<>> THEN <<>> ELSE Head(units) \o unit_functions(Tail(units))

\* The first loop: the k-th function on.  Found gives the addresses
\* returned at once, Inlined the function the 'main block breaks with.
RECURSIVE find_poll_function(_, _)
find_poll_function(functions, k) ==
    IF k > Len(functions) THEN [kind |-> "Found", addresses |-> <<>>]
    ELSE IF ~is_poll_closure(functions[k]) THEN find_poll_function(functions, k + 1)
    ELSE IF Len(functions[k].ranges) = 1
    THEN [kind |-> "Found", addresses |-> <<functions[k].ranges[1].end - 4>>]
    ELSE IF functions[k].is_inline
    THEN [kind |-> "Inlined", poll_function |-> functions[k]]
    ELSE find_poll_function(functions, k + 1)

\* The ends pushed for the ranges of one inlined function, range k on.
RECURSIVE range_ends(_, _)
range_ends(ranges, k) ==
    IF k > Len(ranges) THEN <<>>
    ELSE IF ranges[k].begin = 0 THEN range_ends(ranges, k + 1)
    ELSE <<ranges[k].end>> \o range_ends(ranges, k + 1)

\* A search that does not look into what is inlined into an inlined
\* function.
find_function_in_inlined_flat(function, inlined_function) ==
    IF /\ inlined_function.abstract_origin # <<>>
       /\ inlined_function.abstract_origin[1] = function.id
    THEN range_ends(inlined_function.ranges, 1)
    ELSE <<>>

\* find_function_in_inlined: the addresses it pushes to found_addresses.
RECURSIVE find_function_in_inlined(_, _)
RECURSIVE find_function_in_all(_, _, _)
find_function_in_inlined(function, inlined_function) ==
    (IF /\ inlined_function.abstract_origin # <<>>
        /\ inlined_function.abstract_origin[1] = function.id
     THEN range_ends(inlined_function.ranges, 1)
     ELSE <<>>)
    \o find_function_in_all(function, inlined_function.inlined_functions, 1)

\* The loop over a list of inlined functions, from the k-th on.
find_function_in_all(function, inlined_functions, k) ==
    IF k > Len(inlined_functions) THEN <<>>
    ELSE find_function_in_inlined(function, inlined_functions[k])
             \o find_function_in_all(function, inlined_functions, k + 1)

\* The second loop: all functions of all units, from the k-th on.
RECURSIVE find_inlined_addresses(_, _, _)
find_inlined_addresses(poll_function, functions, k) ==
    IF k > Len(functions) THEN <<>>
    ELSE find_function_in_all(poll_function, functions[k].inlined_functions, 1)
             \o find_inlined_addresses(poll_function, functions, k + 1)

find_poll_function_addresses_of(functions, found) ==
    IF found.kind = "Found" THEN found.addresses
    ELSE find_inlined_addresses(found.poll_function, functions, 1)

\* find_poll_function_addresses(file_hash)
find_poll_function_addresses(units) ==
    find_poll_function_addresses_of(unit_functions(units),
                                    find_poll_function(unit_functions(units), 1))

\* The poll closure of the executor, id 1, with the given ranges.
PollClosure(ranges, is_inline) ==
    Function(1, <<"{closure#0}">>, <<"_ZN16embassy_executor3raw12SyncExecutor4poll">>,
             <<<<"embassy_executor", "raw", "{impl#9}", "poll">>>>, ranges, is_inline, <<>>)

\* Functions that are not it: a closure of another function of the
\* executor, and one without a linkage name.
OtherClosure(ranges) ==
    Function(2, <<"{closure#0}">>, <<"_ZN16embassy_executor3raw12SyncExecutor5spawn">>,
             <<<<"embassy_executor", "raw", "{impl#9}", "spawn">>>>, ranges, TRUE, <<>>)

Unnamed(ranges) ==
    Function(3, <<"{closure#0}">>, <<>>,
             <<<<"embassy_executor", "raw", "{impl#9}", "poll">>>>, ranges, TRUE, <<>>)

\* Inlined functions: of the poll closure, with the range at 0 the
\* compiler adds, of another function, without origin, and nested ones.
InlinedLeaves ==
    { InlinedFunction(<<1>>, <<Range(0, 8), Range(100, 120)>>, <<>>),
      InlinedFunction(<<1>>, <<Range(400, 420), Range(440, 460)>>, <<>>),
      InlinedFunction(<<2>>, <<Range(200, 220)>>, <<>>),
      InlinedFunction(<<>>, <<Range(300, 320)>>, <<>>) }

InlinedTrees ==
    InlinedLeaves
    \cup { InlinedFunction(<<2>>, <<Range(500, 520)>>, <<leaf>>) : leaf \in InlinedLeaves }
    \cup { InlinedFunction(<<>>, <<>>,
                           <<InlinedFunction(<<1>>, <<Range(0, 4), Range(600, 620)>>,
                                             <<InlinedFunction(<<1>>, <<Range(100, 120)>>,
                                                               <<>>)>>)>>) }

PollFiles ==
    { <<<<OtherClosure(<<Range(700, 720)>>), candidate>>,
        <<Function(4, <<"main">>, <<"main">>, <<<<"app">>>>, <<Range(800, 900)>>, FALSE,
                   inlined),
          Function(5, <<"run">>, <<>>, <<>>, <<Range(900, 990)>>, FALSE,
                   IF inlined = <<>> THEN <<>> ELSE <<inlined[1]>>)>>>> :
        candidate \in { PollClosure(<<>>, TRUE), PollClosure(<<>>, FALSE),
                        PollClosure(<<Range(1000, 1040)>>, TRUE),
                        PollClosure(<<Range(1000, 1040)>>, FALSE),
                        PollClosure(<<Range(0, 8), Range(1000, 1040)>>, TRUE),
                        Unnamed(<<Range(1000, 1040)>>) },
        inlined \in SeqsUpTo(InlinedTrees, MaxInlined) }

PollInit ==
    /\ CtlIdle
    /\ r_in \in { [kind |-> "units", units |-> units] : units \in PollFiles }
    /\ r_pc = "find_poll"
    /\ r_out = NoValue

\* find_poll_function_addresses(file_hash)
FindPollFunctionAddresses ==
    /\ r_pc = "find_poll"
    /\ r_out' = [kind |-> "Ok", addresses |-> find_poll_function_addresses(r_in.units)]
    /\ r_pc' = "done"
    /\ UNCHANGED <<r_in, ctl_vars>>

PollNext == FindPollFunctionAddresses

SpecPoll == PollInit /\ [][PollNext]_vars

(***************************************************************************)
(* Properties of the controller, stated on what the last call did.         *)
(***************************************************************************)
\* The last call was a handle_event of one of the given events.
Handling(kinds) == status \in {"ready", "panicked"} /\ trace.event.kind \in kinds

\* The last call was a handle_event of a Breakpoint with one of the ids
\* recorded at construction.
HandlingSafepoint ==
    /\ Handling({"Breakpoint"})
    /\ \E k \in 1..Len(poll_break_point_ids) : poll_break_point_ids[k] = trace.event.id

\* The positions in the last call's adapter calls of the calls of a kind.
CallsTo(call) == { i \in 1..Len(trace.calls) : trace.calls[i].call = call }

IsRead(c) == c.call = "read_memory"
IsReadOk(c) == c.call = "read_memory" /\ c.result.ok
IsSetBreakpoint(c) == c.call = "set_breakpoint"

\* The reads of the last call, in the order they were issued.
ReadsIssued == SelectSeq(trace.calls, IsRead)

\* One read_memory(pool.address, pool.size) per task pool, in task_pools order.
OneReadPerPool ==
    /\ Len(ReadsIssued) = Len(debug_data.task_pools)
    /\ \A k \in 1..Len(debug_data.task_pools) :
           /\ ReadsIssued[k].addr = debug_data.task_pools[k].address
           /\ ReadsIssued[k].len = debug_data.task_pools[k].size

\* The pool a read was for.
PoolRead(c) ==
    CHOOSE task_pool \in { debug_data.task_pools[k] : k \in 1..Len(debug_data.task_pools) } :
        task_pool.address = c.addr

\* The snapshot the reads of the last call amount to: the value of every
\* pool whose read succeeded, in the order of the reads.
SnapshotRead ==
    [k \in 1..Len(SelectSeq(trace.calls, IsReadOk)) |->
        TaskPoolValue_new(PoolRead(SelectSeq(trace.calls, IsReadOk)[k]),
                          SelectSeq(trace.calls, IsReadOk)[k].result.bytes,
                          debug_data.future_types)]

\* C1: handling Breakpoint(id) with a registered id, every read_memory of
\* the snapshot is issued before resume(), and none after it.
C1_ReadsBeforeResume ==
    HandlingSafepoint =>
        /\ CallsTo("resume") # {}
        /\ \A i \in CallsTo("read_memory"), j \in CallsTo("resume") : i < j

\* A safepoint was handled with both pools read and the target resumed.
C1_Witness ==
    /\ HandlingSafepoint
    /\ Cardinality(CallsTo("read_memory")) = 2
    /\ Cardinality(CallsTo("resume")) = 1
    /\ trace.ret = "Ok"

\* C2: one handle_event calls resume() exactly once if the event is
\* Breakpoint(id) with id among the ids recorded at construction, and not
\* at all for Breakpoint with another id, Stoped, Redraw, Scroll or Click.
C2_ResumeOnlyAtSafepoint ==
    Handling({"Breakpoint", "Stoped", "Redraw", "Scroll", "Click"}) =>
        Cardinality(CallsTo("resume")) = IF HandlingSafepoint THEN 1 ELSE 0

\* A breakpoint that is not a safepoint was handled while two safepoint
\* ids are recorded: the snapshot was taken and the target left halted.
C2_Witness ==
    /\ Handling({"Breakpoint"})
    /\ ~HandlingSafepoint
    /\ Len(poll_break_point_ids) = 2
    /\ CallsTo("read_memory") # {}
    /\ CallsTo("resume") = {}

\* C3: handling Breakpoint(id), for any id, or Stoped replaces the last
\* snapshot: exactly one read_memory(pool.address, pool.size) is issued per
\* task pool in task_pools order, and last_values afterwards holds one
\* TaskPoolValue per successfully read pool in that order and nothing of
\* the snapshot before.
C3_SnapshotReplaced ==
    Handling({"Breakpoint", "Stoped"}) =>
        /\ OneReadPerPool
        /\ last_values = SnapshotRead

\* A snapshot of two pools was taken on Stoped.
C3_Witness ==
    /\ Handling({"Stoped"})
    /\ Len(last_values) = 2
    /\ Len(ReadsIssued) = 2
    /\ last_values[2].task_pool.path = "app::tick"

\* A read of the last call failed.
SomeReadFailed == \E i \in CallsTo("read_memory") : ~trace.calls[i].result.ok

C5_DrawEventsReadNothing ==
    [][trace'.event.kind \in {"Redraw", "Scroll", "Click"} =>
          /\ trace'.calls = <<>>
          /\ last_values' = last_values]_vars

\* A click opened the page of a task of the snapshot.
C5_Witness ==
    /\ Handling({"Click"})
    /\ Len(page_stack) = 2
    /\ Len(last_values) = 2
    /\ trace.calls = <<>>

\* The last call was a constructor that returned an inspector.
JustConstructed == status = "ready" /\ trace.event.kind = "new"

SetBreakpointsIssued == SelectSeq(trace.calls, IsSetBreakpoint)

\* C6: after a successful construction, set_breakpoint was called exactly
\* once for each safepoint address, the recorded breakpoint ids are the
\* ids those calls returned, one per address, and an initial snapshot was
\* taken before the constructor returned.
C6_Construction ==
    JustConstructed =>
        /\ Len(SetBreakpointsIssued) = Len(debug_data.poll_done_addresses)
        /\ \A k \in 1..Len(debug_data.poll_done_addresses) :
               SetBreakpointsIssued[k].addr = debug_data.poll_done_addresses[k]
        /\ poll_break_point_ids =
               [k \in 1..Len(SetBreakpointsIssued) |-> SetBreakpointsIssued[k].result.id]
        /\ OneReadPerPool
        /\ last_values = SnapshotRead

\* An inspector for two safepoints whose ids are not their addresses, with
\* a first snapshot of two pools.
C6_Witness ==
    /\ JustConstructed
    /\ poll_break_point_ids = <<7, 8>>
    /\ debug_data.poll_done_addresses = <<256, 512>>
    /\ Len(last_values) = 2

\* The last call handled a safepoint and resume() returned an error.
ResumeFailed ==
    /\ HandlingSafepoint
    /\ \E j \in CallsTo("resume") : ~trace.calls[j].ok

\* C7 as claimed: an error of resume() while handling a safepoint is only
\* logged; the redraw happens and handle_event does not fail.
C7_ResumeErrorLogged == ResumeFailed => (trace.drawn /\ trace.ret = "Ok")

\* C7: an error of resume() while handling a safepoint is returned by
\* handle_event, after the snapshot was taken and without a redraw.
C7_ResumeErrorReturned ==
    ResumeFailed =>
        /\ trace.ret = "Err"
        /\ ~trace.drawn
        /\ OneReadPerPool
        /\ last_values = SnapshotRead
        /\ trace.calls[Len(trace.calls)].call = "resume"

\* resume() failed at a safepoint of a target whose pool was read.
C7_Witness ==
    /\ ResumeFailed
    /\ trace.ret = "Err"
    /\ Len(last_values) >= 1

RECURSIVE FutureValue_keys(_)
\* The (bytes, type) pairs of the values a future value contains.
FutureValue_keys(value) ==
    CASE value.kind = "AsyncFnValue" ->
             IF value.value.state_value.kind = "Ok"
             THEN { <<value.value.state_value.ok.members[k].bytes,
                      value.value.state_value.ok.members[k].member.ty>> :
                        k \in 1..Len(value.value.state_value.ok.members) }
                  \cup UNION { FutureValue_keys(value.value.state_value.ok.awaitee[k]) :
                                 k \in 1..Len(value.value.state_value.ok.awaitee) }
             ELSE {}
      [] value.kind \in {"SelectValue", "JoinValue"} ->
             UNION { FutureValue_keys(value.value.awaitees[k]) :
                       k \in 1..Len(value.value.awaitees) }
      [] value.kind = "Unknown" -> { <<value.bytes, value.ty>> }

\* The (bytes, type) pairs of the values in last_values.
SnapshotKeys ==
    UNION { UNION { IF last_values[p].task_values[t].kind = "Init"
                    THEN FutureValue_keys(last_values[p].task_values[t].future)
                    ELSE {} : t \in 1..Len(last_values[p].task_values) }
            : p \in 1..Len(last_values) }

\* C8: every entry of the formatting cache was inserted after the most
\* recent snapshot, and its key is the bytes and type of a value in the
\* current last_values; a snapshot empties the cache, so when no redraw
\* follows it the cache is empty.
C8_CacheOfCurrentSnapshot ==
    status \in {"ready", "panicked"} =>
        /\ \A e \in formating_cache : ~e.stale /\ <<e.bytes, e.ty>> \in SnapshotKeys
        /\ (Handling({"Breakpoint", "Stoped"}) /\ ~trace.drawn /\ trace.ret = "Err")
               => formating_cache = {}

\* A snapshot was taken while details were open: the cache holds the lines
\* of two values of the new snapshot.
C8_Witness ==
    /\ Handling({"Breakpoint", "Stoped"})
    /\ Cardinality(formating_cache) >= 2
    /\ \A e \in formating_cache : ~e.stale

(***************************************************************************)
(* Properties of the reifier.                                              *)
(***************************************************************************)
\* Byte k (0-based, little-endian) of a u64.
ByteOfU64(n, k) ==
    IF k % 2 = 0 THEN n[k \div 2 + 1] % 256 ELSE n[k \div 2 + 1] \div 256

\* bytes[from..from+len] of the input, by position.
Window(bytes, from, len) == [k \in 1..len |-> bytes[from + k]]

StateWordWidth(header_layout) == IF header_layout.state_type = "U8" THEN 1 ELSE 4

\* What slot i of a pool must reify to, stated on the slot's own bytes.
ExpectedTaskValue(task_pool, slot) ==
    IF \A k \in 1..StateWordWidth(task_pool.header_layout) :
           slot[task_pool.header_layout.state_offset + k] = 0
    THEN [kind |-> "Uninit"]
    ELSE [kind |-> "Init",
          future |-> [kind |-> "AsyncFnValue", ty |-> task_pool.async_fn_base_type,
                      value |-> AsyncFnValue_new(task_pool.async_fn_type,
                                    Window(slot, task_pool.future_offset,
                                           Len(slot) - task_pool.future_offset),
                                    ReifyFutureTypes, MaxDepth)]]

ReifiedPool == r_pc = "done" /\ r_in.kind = "pool" /\ r_in.task_pool.number_of_tasks > 0

\* C9: reifying a pool of slot_count > 0 slots yields exactly slot_count
\* task values; task i is decoded from the bytes starting at i * slot_size
\* with slot_size = total_size / slot_count; it is Uninit iff the 1 or 4
\* bytes of the header state word at state_offset in the slot are all
\* zero, and otherwise Init with the future decoded at future_offset in
\* the slot against the pool's future layout.
C9_TaskPoolSlots ==
    ReifiedPool =>
        LET task_pool == r_in.task_pool
            slot_size == task_pool.size \div task_pool.number_of_tasks
        IN  /\ r_out.kind = "TaskPoolValue"
            /\ Len(r_out.task_values) = task_pool.number_of_tasks
            /\ \A i \in 0..(task_pool.number_of_tasks - 1) :
                   At(r_out.task_values, i) =
                       ExpectedTaskValue(task_pool,
                                         Window(r_in.bytes, i * slot_size, slot_size))

\* A pool with a 4-byte state word whose first slot is free and whose
\* second is taken by a state word that is zero in its first byte.
C9_Witness ==
    /\ ReifiedPool
    /\ r_in.task_pool.header_layout.state_type = "U32"
    /\ r_out.kind = "TaskPoolValue"
    /\ Len(r_out.task_values) = 2
    /\ r_out.task_values[1].kind = "Uninit"
    /\ r_out.task_values[2].kind = "Init"
    /\ r_in.bytes[6] = 0

ReifiedAsyncFn == r_pc = "done" /\ r_in.kind = "async_fn"

\* The discriminant of the input equals d: its state_member.size bytes at
\* state_member.offset are the low bytes of d, least significant first,
\* and the remaining bytes of d are zero.
DiscriminantIs(async_fn_type, bytes, d) ==
    \A k \in 0..7 :
        ByteOfU64(d, k) = IF k < async_fn_type.state_member.size
                          THEN bytes[async_fn_type.state_member.offset + k + 1]
                          ELSE 0

\* C10: when the discriminant of the bytes (state_member.size bytes at
\* state_member.offset, little-endian, zero-extended to 64 bits) is the
\* discriminant_value of a state s, AsyncFnValue::new yields Ok(StateValue)
\* for s, whose members are exactly the active members of s, in index
\* order, each with bytes[offset..offset+size] unmodified.
C10_MatchingState ==
    ReifiedAsyncFn =>
        \A i \in 1..Len(r_in.async_fn_type.states) :
            LET s == r_in.async_fn_type.states[i]
            IN  DiscriminantIs(r_in.async_fn_type, r_in.bytes, s.discriminant_value) =>
                    /\ r_out.kind = "AsyncFnValue"
                    /\ r_out.state_value.kind = "Ok"
                    /\ r_out.state_value.ok.state = s
                    /\ r_out.state_value.ok.members =
                           [k \in 1..Len(s.active_members) |->
                               LET m == At(r_in.async_fn_type.members, s.active_members[k])
                               IN  [kind |-> "MemberValue", member |-> m,
                                    bytes |-> Window(r_in.bytes, m.offset, m.size)]]

\* A 4-byte discriminant with its only non-zero byte in the last place,
\* matched to a state with an active member.
C10_Witness ==
    /\ ReifiedAsyncFn
    /\ r_in.async_fn_type.state_member.size = 4
    /\ r_in.bytes[4] = 3
    /\ r_in.bytes[5] = 3
    /\ r_out.kind = "AsyncFnValue"
    /\ r_out.state_value.kind = "Ok"
    /\ Len(r_out.state_value.ok.members) = 1
    /\ r_out.state_value.ok.members[1].bytes = <<3>>

\* The `size` bytes of `bytes` at `offset` are the low bytes of d, least
\* significant first, and the remaining bytes of d are zero.
BytesAreU64(bytes, offset, size, d) ==
    \A k \in 0..7 : ByteOfU64(d, k) = IF k < size THEN bytes[offset + k + 1] ELSE 0

\* The u64 that `size` bytes at `offset` spell, least significant first.
U64OfBytes(bytes, offset, size) ==
    [l \in 1..4 |->
        (IF 2 * l - 2 < size THEN bytes[offset + 2 * l - 1] ELSE 0)
            + 256 * (IF 2 * l - 1 < size THEN bytes[offset + 2 * l] ELSE 0)]

\* No state of the layout has the discriminant the bytes spell.
NoStateMatches(async_fn_type, bytes) ==
    \A i \in 1..Len(async_fn_type.states) :
        ~DiscriminantIs(async_fn_type, bytes, async_fn_type.states[i].discriminant_value)

\* The value of a coroutine whose discriminant d matches no state.
UnknownState(async_fn_type, d) ==
    [kind |-> "AsyncFnValue", ty |-> async_fn_type,
     state_value |-> [kind |-> "Err", err |-> d]]

\* C11: when the decoded discriminant of a coroutine matches no state of
\* its layout, AsyncFnValue::new yields state_value = Err(d) with d the
\* decoded discriminant and decodes no member and no awaitee; inside a task
\* pool the task of that coroutine is still Init.
C11_UnknownDiscriminant ==
    /\ (ReifiedAsyncFn /\ NoStateMatches(r_in.async_fn_type, r_in.bytes)) =>
           r_out = UnknownState(r_in.async_fn_type,
                       U64OfBytes(r_in.bytes, r_in.async_fn_type.state_member.offset,
                                  r_in.async_fn_type.state_member.size))
    /\ ReifiedPool =>
           LET task_pool == r_in.task_pool
               slot_size == task_pool.size \div task_pool.number_of_tasks
           IN  \A i \in 0..(task_pool.number_of_tasks - 1) :
                   LET slot == Window(r_in.bytes, i * slot_size, slot_size)
                       future == Window(slot, task_pool.future_offset,
                                        slot_size - task_pool.future_offset)
                   IN  (/\ slot[task_pool.header_layout.state_offset + 1] # 0
                        /\ NoStateMatches(task_pool.async_fn_type, future)) =>
                           At(r_out.task_values, i) =
                               [kind |-> "Init",
                                future |->
                                    [kind |-> "AsyncFnValue",
                                     ty |-> task_pool.async_fn_base_type,
                                     value |-> UnknownState(task_pool.async_fn_type,
                                         U64OfBytes(future,
                                             task_pool.async_fn_type.state_member.offset,
                                             task_pool.async_fn_type.state_member.size))]]

\* A spawned task whose coroutine has the discriminant 0xFF.
C11_Witness ==
    /\ ReifiedPool
    /\ r_in.bytes = <<1, 255, 0>>
    /\ r_out.kind = "TaskPoolValue"
    /\ r_out.task_values[1].kind = "Init"
    /\ r_out.task_values[1].future.value.state_value = [kind |-> "Err", err |-> U64(255)]

ReifiedFuture(ty) == r_pc = "done" /\ r_in.kind = "future" /\ r_in.ty = ty

\* What one child of a join must reify to, stated on the child's own
\* bytes: the bytes of the join from the child's offset on.
ExpectedJoinChild(ty, bytes, future_types) ==
    IF BytesAreU64(bytes, ty.discriminant_offset, ty.discriminant_size,
                   ty.future_variant.discriminant)
    THEN FutureValue_new(ty.future_variant.ty,
                         Window(bytes, ty.future_variant.offset, ty.future_variant.size),
                         future_types, MaxDepth)
    ELSE IF BytesAreU64(bytes, ty.discriminant_offset, ty.discriminant_size,
                        ty.done_variant.discriminant)
    THEN [kind |-> "Unknown", ty |-> ty.done_variant.ty,
          bytes |-> Window(bytes, ty.done_variant.offset, ty.done_variant.size)]
    ELSE [kind |-> "Unknown", ty |-> "void", bytes |-> <<>>]

\* C12: for each child of a join the MaybeDone discriminant is read at the
\* child's own offset and width; on the Future variant's discriminant the
\* child is reified against the Future variant's type over exactly that
\* variant's bytes; on the Done variant's discriminant it is an opaque value
\* of the Done type with exactly the Done variant's bytes; on any other
\* discriminant it is an opaque value of type void without bytes.
C12_JoinChildren ==
    ReifiedFuture("JPair") =>
        /\ r_out.kind = "JoinValue"
        /\ r_out.ty = "JPair"
        /\ Len(r_out.value.awaitees) = Len(JPair.awaitees)
        /\ \A k \in 1..Len(JPair.awaitees) :
               r_out.value.awaitees[k] =
                   ExpectedJoinChild(JPair.awaitees[k][2],
                       Window(r_in.bytes, JPair.awaitees[k][1],
                              Len(r_in.bytes) - JPair.awaitees[k][1]),
                       r_in.future_types)

\* A join whose first child is still running, in a state with a live
\* local, and whose second child is done: its 2-byte discriminant is 1.
C12_Witness ==
    /\ ReifiedFuture("JPair")
    /\ r_in.bytes = <<0, 3, 1, 3, 0, 1, 0>>
    /\ r_out.value.awaitees[1].kind = "AsyncFnValue"
    /\ r_out.value.awaitees[1].value.state_value.ok.members[1].bytes = <<1>>
    /\ r_out.value.awaitees[2] = [kind |-> "Unknown", ty |-> "u8", bytes |-> <<3>>]

\* An opaque value of a type and bytes.
Opaque(ty, bytes) == [kind |-> "Unknown", ty |-> ty, bytes |-> bytes]

\* C13 as claimed: for any layout and bytes, an awaitee or a child of a
\* combinator whose type is no key of future_types is reified as an opaque
\* value with its bytes and its type, at whatever depth, and the reifier
\* does not panic.
C13_MissingTypeOpaque ==
    /\ ReifiedFuture("SPair") =>
           /\ ~IsAbort(r_out)
           /\ r_out.value.awaitees[2] = Opaque("Timer", Window(r_in.bytes, 2, 2))
    /\ (ReifiedFuture("Deep") /\ r_in.bytes[1] = 3) =>
           /\ ~IsAbort(r_out)
           /\ r_out.value.state_value.ok.awaitee[1].value.awaitees[2] =
                  Opaque("Timer", Window(r_in.bytes, 3, 2))
    /\ (ReifiedFuture("JPair") /\ r_in.bytes[6] = 0 /\ r_in.bytes[7] = 0) =>
           /\ ~IsAbort(r_out)
           /\ r_out.value.awaitees[2] = Opaque("Timer", Window(r_in.bytes, 3, 2))
    /\ (ReifiedFuture("Short") /\ r_in.bytes[1] = 3) =>
           /\ ~IsAbort(r_out)
           /\ r_out.value.state_value.ok.awaitee[1].ty = "Timer"

\* C16 as claimed: the reifier terminates for every future_types map and
\* every byte window, also when a future type contains an awaitee or a
\* child of its own type: it never uses up its stack.
C16_ReifyTerminates == r_pc = "done" => r_out.kind # "StackOverflow"

(***************************************************************************)
(* Properties of a snapshot and of the model over a session.               *)
(***************************************************************************)
\* The pools of the model that have no task.
EmptyPools ==
    { debug_data.task_pools[k] :
        k \in { j \in 1..Len(debug_data.task_pools) :
                  debug_data.task_pools[j].number_of_tasks = 0 } }

\* C14 as claimed: for a task pool with slot_count = 0 a snapshot issues no
\* read_memory for the pool, yields an empty task list for it, and does
\* not fail.
C14_EmptyPoolNoRead ==
    Handling({"Breakpoint", "Stoped"}) =>
        \A task_pool \in EmptyPools :
            /\ \A i \in CallsTo("read_memory") : trace.calls[i].addr # task_pool.address
            /\ trace.ret # "Panic"
            /\ \E k \in 1..Len(last_values) :
                   /\ last_values[k].task_pool = task_pool
                   /\ last_values[k].task_values = <<>>

\* C15: a snapshot taken right after a snapshot, on a target that answers
\* the reads as it did before, leaves last_values structurally equal: the
\* same layouts and the same bytes reify to equal value trees.
C15_SnapshotIdempotent ==
    [][(/\ status = "ready"
        /\ trace.event.kind \in {"new", "Breakpoint", "Stoped"}
        /\ trace'.event.kind \in {"Breakpoint", "Stoped"}
        /\ SelectSeq(trace'.calls, IsRead) = SelectSeq(trace.calls, IsRead))
           => last_values' = last_values]_vars

\* Two pools were read a second time with the answers of the first time,
\* both reads succeeding and a task being spawned.
C15_Witness ==
    /\ Handling({"Breakpoint", "Stoped"})
    /\ trace.repeats
    /\ Len(last_values) = 2
    /\ \A i \in CallsTo("read_memory") : trace.calls[i].result.ok
    /\ last_values[1].task_values[1].kind = "Init"

\* C17: once the inspector is constructed no event changes the model
\* (future_types, the task pools with their addresses and layouts, the
\* safepoint addresses) or the recorded safepoint breakpoint ids.
C17_ModelImmutable ==
    [][status = "ready" =>
          /\ debug_data' = debug_data
          /\ poll_break_point_ids' = poll_break_point_ids]_vars

\* A snapshot was taken after a task page was opened: at least two events
\* were handled since the construction.
C17_Witness ==
    /\ Handling({"Stoped"})
    /\ Len(page_stack) = 2
    /\ Len(debug_data.task_pools) = 2
    /\ poll_break_point_ids = <<7, 8>>

(***************************************************************************)
(* Properties of the extraction.                                           *)
(***************************************************************************)
Extracted == r_pc \in {"extracted", "again"}

\* The wrapper path of the task a variable holds the pool of.
TaskNameOf(unit_var) == "app::__" \o unit_var.namespace[2] \o "_task"

\* The variables of the file that are pools.
PoolVariables ==
    { r_in.object_file.debug_info.variables[k] :
        k \in { j \in 1..Len(r_in.object_file.debug_info.variables) :
                  r_in.object_file.debug_info.variables[j].name = "POOL" } }

\* The pool variables of the file whose task has a future type.
TypedPoolVariables ==
    { v \in PoolVariables :
        \E t \in DOMAIN r_in.object_file.debug_info.future_types :
            starts_with(t, TaskNameOf(v)) }

\* The file is one the parser reads and that has a TaskHeader.
Extractable ==
    /\ r_in.object_file.debug_info.kind = "Ok"
    /\ r_in.object_file.debug_info.header # <<>>

PathsOf(task_pools) == { task_pools[k].path : k \in 1..Len(task_pools) }

\* C18 as claimed: when the future type of a task pool is not found in
\* future_types, the construction of the model leaves that pool out and
\* succeeds with the pools that are left.
C18_MissingFutureTypeOmitsPool ==
    (Extracted /\ Extractable /\ TypedPoolVariables # PoolVariables) =>
        /\ r_out[1].kind = "Ok"
        /\ PathsOf(r_out[1].debug_data.task_pools) =
               { namespace_to_path(v.namespace) : v \in TypedPoolVariables }

\* The pools are in non-increasing order of the size of their futures.
BiggestFirst(task_pools) ==
    \A i, j \in 1..Len(task_pools) :
        i < j => task_pools[i].async_fn_type.total_size
                     >= task_pools[j].async_fn_type.total_size

\* No task of the file has a wrapper path that another task's begins with.
NoPrefixClash ==
    \A v, w \in PoolVariables : v # w => ~starts_with(TaskNameOf(w), TaskNameOf(v))

\* C19 as claimed, for files in which no task's wrapper path is a prefix of
\* another's: the pools of the model are in non-increasing order of future
\* size, and building the model twice from one object file gives the same
\* pools in the same order, bound to the same layouts.
C19_PoolOrderDeterministic ==
    (r_pc = "again" /\ r_out[1].kind = "Ok" /\ r_out[2].kind = "Ok" /\ NoPrefixClash) =>
        /\ BiggestFirst(r_out[1].debug_data.task_pools)
        /\ BiggestFirst(r_out[2].debug_data.task_pools)
        /\ r_out[1] = r_out[2]

\* C20 as claimed: every pool the extraction produces has total_size =
\* slot_count * slot_size exactly, and future_offset + the size of its
\* future's layout <= slot_size.
C20_PoolFitsSlots ==
    (Extracted /\ r_out[1].kind = "Ok") =>
        \A k \in 1..Len(r_out[1].debug_data.task_pools) :
            LET task_pool == r_out[1].debug_data.task_pools[k]
                slot_size == task_pool.size \div task_pool.number_of_tasks
            IN  /\ task_pool.size = task_pool.number_of_tasks * slot_size
                /\ task_pool.future_offset + task_pool.async_fn_type.total_size
                       <= slot_size

(***************************************************************************)
(* Properties of the ScrollView.                                           *)
(***************************************************************************)
Rendered == r_pc = "done" /\ r_in.kind = "scroll_view"

\* The cell of the widget the claim puts at a row and column of the view.
ShownAt(row, col) ==
    IF /\ row + r_in.scroll - r_in.area.y >= 0
       /\ row + r_in.scroll - r_in.area.y < r_in.area.height
       /\ col - r_in.area.x >= 0
       /\ col - r_in.area.x < r_in.area.width
    THEN <<row + r_in.scroll - r_in.area.y, col - r_in.area.x>>
    ELSE Blank

\* The rows and columns of the view the widget is visible at.
VisibleRows ==
    { row \in 0..(r_in.frame.height - 1) :
        /\ row >= r_in.area.y - r_in.scroll
        /\ row < r_in.area.y - r_in.scroll + r_in.area.height }

VisibleCols ==
    { col \in 0..(r_in.frame.width - 1) :
        col >= r_in.area.x /\ col < r_in.area.x + r_in.area.width }

\* The view shows the widget moved up by the scroll and cut at the view.
DisplayCut ==
    \A row \in 0..(r_in.frame.height - 1), col \in 0..(r_in.frame.width - 1) :
        r_out.self.buf.content[r_in.frame.width * row + col] = ShownAt(row, col)

\* The rect is the visible part, and of size zero when there is none.
RectIsVisiblePart ==
    IF VisibleRows = {} \/ VisibleCols = {}
    THEN r_out.rect.width * r_out.rect.height = 0
    ELSE /\ { row \in 0..(MaxCoord + MaxExtent) :
                row >= r_out.rect.y /\ row < r_out.rect.y + r_out.rect.height }
                = VisibleRows
         /\ { col \in 0..(MaxCoord + MaxExtent + 1) :
                col >= r_out.rect.x /\ col < r_out.rect.x + r_out.rect.width }
                = VisibleCols

\* C21 as claimed: render_widget with scroll s shows a widget given at
\* (x, y, w, h) at the view rows y-s .. y-s+h-1, only the rows and columns
\* inside the view, and returns exactly the part visible in the view, a
\* rect of size zero when the widget is entirely off screen.
C21_RenderWidgetCut ==
    Rendered => /\ r_out.kind = "Ok"
                /\ DisplayCut
                /\ RectIsVisiblePart

(***************************************************************************)
(* Properties of normalize_name.                                           *)
(***************************************************************************)
\* A name with every outermost brace group replaced by one '_': character
\* by character, what is outside the braces stays, and the brace that
\* closes an outermost group gives the '_'.
RECURSIVE GroupsReplaced(_, _)
GroupsReplaced(name, n) ==
    IF n = 0 THEN ""
    ELSE GroupsReplaced(name, n - 1)
             \o (IF SubSeq(name, n, n) = "}" /\ Nesting(name, n) = 0 THEN "_"
                 ELSE IF Nesting(name, n) = 0 /\ Nesting(name, n - 1) = 0
                 THEN SubSeq(name, n, n)
                 ELSE "")

\* C22: normalize_name replaces every outermost brace group of a name, with
\* the braces nested in it, by one '_' and keeps every other character, so
\* two names that differ only inside their brace groups normalize to the
\* same string, and a normalized name is normalized to itself.
C22_NormalizeName ==
    /\ r_pc \in {"normalized", "again"} =>
           /\ r_out[1] = [kind |-> "Ok", nor |-> GroupsReplaced(r_in.name, Len(r_in.name))]
           /\ r_out[2] = [kind |-> "Ok",
                          nor |-> GroupsReplaced(r_in.type_name, Len(r_in.type_name))]
           /\ (GroupsReplaced(r_in.name, Len(r_in.name))
                   = GroupsReplaced(r_in.type_name, Len(r_in.type_name))
               => r_out[1] = r_out[2])
    /\ r_pc = "again" => r_out[3] = r_out[1] /\ r_out[4] = r_out[2]

\* The names of the test were normalized, and again: both give
\* s::f::_<s::g::_>.
C22_Witness ==
    /\ r_pc = "again"
    /\ r_in.name = DebugName /\ r_in.type_name = TypeName
    /\ r_out[1].nor = "s::f::_<s::g::_>"
    /\ r_out[2].nor = "s::f::_<s::g::_>"
    /\ r_out[3].nor = "s::f::_<s::g::_>"

(***************************************************************************)
(* Properties of the extraction of a coroutine's layout.                   *)
(***************************************************************************)
LayoutExtracted == r_pc \in {"extracted", "reified"} /\ r_out.kind = "Ok"

\* The Member records the ids of a state stand for.
MembersOf(self, s) ==
    { self.members[self.states[s].active_members[k] + 1] :
        k \in 1..Len(self.states[s].active_members) }

\* C23: after sort_members_by_offset the members are in ascending order of
\* offset, every id of every state is below the number of members, every
\* state's ids are ascending, and every state stands for the same Member
\* records as before the sort.
C23_SortKeepsReferences ==
    LayoutExtracted =>
        /\ \A i, j \in 1..Len(r_out.async_fn_type.members) :
               i < j => r_out.async_fn_type.members[i].offset
                            <= r_out.async_fn_type.members[j].offset
        /\ \A s \in 1..Len(r_out.async_fn_type.states) :
               /\ \A k \in 1..Len(r_out.async_fn_type.states[s].active_members) :
                      /\ r_out.async_fn_type.states[s].active_members[k] >= 0
                      /\ r_out.async_fn_type.states[s].active_members[k]
                             < Len(r_out.async_fn_type.members)
               /\ \A k, l \in 1..Len(r_out.async_fn_type.states[s].active_members) :
                      k < l => r_out.async_fn_type.states[s].active_members[k]
                                   < r_out.async_fn_type.states[s].active_members[l]
               /\ Len(r_out.async_fn_type.states[s].active_members)
                      = Len(r_out.unsorted.states[s].active_members)
               /\ MembersOf(r_out.async_fn_type, s) = MembersOf(r_out.unsorted, s)
               /\ r_out.async_fn_type.states[s].discriminant_value
                      = r_out.unsorted.states[s].discriminant_value

\* The sort moved members: b was met first and is behind a and c, which
\* share an offset, and a state holds two of them.
C23_Witness ==
    /\ LayoutExtracted
    /\ Len(r_out.unsorted.members) = 3
    /\ r_out.unsorted.members[1].name = "b"
    /\ r_out.async_fn_type.members[3].name = "b"
    /\ r_out.async_fn_type.members[1].offset = r_out.async_fn_type.members[2].offset
    /\ r_out.unsorted.states[1].active_members = <<0, 1>>
    /\ r_out.async_fn_type.states[1].active_members # <<0, 1>>

\* The members a variant reports that are stored: converted, not the
\* awaitee and not of size zero.
StoredOf(variant) ==
    { Member_from_ddbug_member(variant.members[k]).member :
        k \in { j \in 1..Len(variant.members) :
                  /\ variant.members[j].name # <<"__awaitee">>
                  /\ variant.members[j].bit_size[1] \div 8 # 0 } }

\* How often a value is in a sequence.
TimesIn(s, x) == Cardinality({ k \in 1..Len(s) : s[k] = x })

\* C24: a member with the same name, type, offset and size in several
\* variants is stored once in members, the list of each of those variants
\* holds its id once, also when the variant reports it more than once,
\* members of size zero are in no list, and no member named __awaitee is
\* in members.
C24_MembersDeduplicated ==
    LayoutExtracted =>
        /\ \A i, j \in 1..Len(r_out.async_fn_type.members) :
               i # j => r_out.async_fn_type.members[i] # r_out.async_fn_type.members[j]
        /\ \A i \in 1..Len(r_out.async_fn_type.members) :
               /\ r_out.async_fn_type.members[i].name # "__awaitee"
               /\ r_out.async_fn_type.members[i].size # 0
        /\ \A s \in 1..Len(r_out.async_fn_type.states) :
               /\ MembersOf(r_out.async_fn_type, s)
                      = StoredOf(r_in.ddbug_type.variant_parts[1][s])
               /\ \A i \in 1..Len(r_out.async_fn_type.members) :
                      TimesIn(r_out.async_fn_type.states[s].active_members, i - 1)
                          = IF r_out.async_fn_type.members[i]
                                   \in StoredOf(r_in.ddbug_type.variant_parts[1][s])
                            THEN 1 ELSE 0

\* Three variants report b, the second twice, beside a zero-sized z: b is
\* stored once, and is the one id of each of the three lists.
C24_Witness ==
    /\ LayoutExtracted
    /\ Len(r_in.ddbug_type.variant_parts[1]) = 3
    /\ r_in.ddbug_type.variant_parts[1][2].members[2].name = <<"z">>
    /\ r_out.async_fn_type.members = <<Member("b", "u8", 3, 1)>>
    /\ \A s \in 1..3 : r_out.async_fn_type.states[s].active_members = <<0>>

\* The bit sizes of the members of the struct read, the state member and
\* those of the variants.
BitSizesRead ==
    { r_in.ddbug_type.members[k].bit_size[1] : k \in 1..Len(r_in.ddbug_type.members) }
    \cup UNION { { r_in.ddbug_type.variant_parts[1][v].members[k].bit_size[1] :
                     k \in 1..Len(r_in.ddbug_type.variant_parts[1][v].members) } :
                 v \in 1..Len(r_in.ddbug_type.variant_parts[1]) }

\* C25 as claimed: every layout the extractor accepts has a state member of
\* size 1, 2, 4 or 8 and no member whose bit size is not a multiple of 8,
\* so the discriminant decoding of the reifier does not reach its
\* unreachable branch.
C25_StateMemberWidth ==
    /\ LayoutExtracted =>
           /\ r_out.async_fn_type.state_member.size \in {1, 2, 4, 8}
           /\ \A bit_size \in BitSizesRead : bit_size % 8 = 0
    /\ (r_pc = "reified") => r_out.value[1].kind # "Panic"

(***************************************************************************)
(* Properties of the safepoint locator.                                    *)
(***************************************************************************)
\* The candidate: the function of the file that is the poll closure.
Candidate == r_in.units[1][2]

\* How many ranges not beginning at 0, of inlined instances of the function
\* with the id, at any depth under the inlined functions given, end at the
\* address.
RECURSIVE RangesEndingAt(_, _, _)
RangesEndingAt(inlined_functions, id, addr) ==
    IF inlined_functions = <<>> THEN 0
    ELSE (IF Head(inlined_functions).abstract_origin = <<id>>
          THEN Cardinality({ k \in 1..Len(Head(inlined_functions).ranges) :
                               /\ Head(inlined_functions).ranges[k].begin # 0
                               /\ Head(inlined_functions).ranges[k].end = addr })
          ELSE 0)
         + RangesEndingAt(Head(inlined_functions).inlined_functions, id, addr)
         + RangesEndingAt(Tail(inlined_functions), id, addr)

\* The same over every function of every unit of the file.
FileRangesEndingAt(addr) ==
    RangesEndingAt(r_in.units[2][1].inlined_functions, Candidate.id, addr)
        + RangesEndingAt(r_in.units[2][2].inlined_functions, Candidate.id, addr)
        + RangesEndingAt(r_in.units[1][1].inlined_functions, Candidate.id, addr)
        + RangesEndingAt(r_in.units[1][2].inlined_functions, Candidate.id, addr)

PollAddresses == { 4, 8, 120, 220, 320, 420, 460, 520, 620, 720, 900, 990, 1036, 1040 }

\* C26: when the poll closure is marked inline and has not exactly one
\* range, one range.end is emitted for every range that does not begin at
\* 0 of every instance inlined, at any depth in any function, whose origin
\* is the closure, and nothing else; when it has exactly one range, that
\* range's end - 4 is all that is emitted.
C26_SafepointAddresses ==
    (r_pc = "done" /\ r_in.kind = "units" /\ is_poll_closure(Candidate)) =>
        /\ Len(Candidate.ranges) = 1 =>
               r_out.addresses = <<Candidate.ranges[1].end - 4>>
        /\ (Len(Candidate.ranges) # 1 /\ Candidate.is_inline) =>
               /\ \A k \in 1..Len(r_out.addresses) : r_out.addresses[k] \in PollAddresses
               /\ \A addr \in PollAddresses :
                      TimesIn(r_out.addresses, addr) = FileRangesEndingAt(addr)

\* The closure is inlined into main under a function without origin, with
\* an instance nested in the instance, and once more beside it, and run
\* has the first of the two: five ranges that do not begin at 0.
C26_Witness ==
    /\ r_pc = "done" /\ r_in.kind = "units"
    /\ is_poll_closure(Candidate)
    /\ Candidate.ranges = <<>> /\ Candidate.is_inline
    /\ Len(r_in.units[2][1].inlined_functions) = 2
    /\ r_in.units[2][1].inlined_functions[1].abstract_origin = <<>>
    /\ r_in.units[2][1].inlined_functions[1].inlined_functions # <<>>
    /\ r_in.units[2][1].inlined_functions[2].ranges = <<Range(0, 8), Range(100, 120)>>
    /\ r_out.addresses = <<620, 120, 120, 620, 120>>

(***************************************************************************)
(* Properties of the pages over a session.                                 *)
(***************************************************************************)
AnyEvent == {"Redraw", "Click", "Scroll", "Breakpoint", "Stoped"}

TopPage == page_stack[Len(page_stack)]

\* The Task page on top refers to a pool and a task of the latest snapshot.
TopPageInSnapshot ==
    TopPage.page = "Task" =>
        /\ TopPage.pool_idx < Len(last_values)
        /\ TopPage.task_idx < Len(At(last_values, TopPage.pool_idx).task_values)

\* C27 as claimed: when the Task page on top refers to a pool or task that
\* is not in the latest snapshot, drawing pops back to the page before and
\* completes: no event fails in the draw, and after a draw the page on top
\* is one of the snapshot.
C27_StaleTaskPagePops ==
    Handling(AnyEvent) =>
        /\ trace.ret # "Panic"
        /\ trace.drawn => TopPageInSnapshot

SelectReified ==
    /\ r_pc = "done"
    /\ r_in.kind = "future"
    /\ r_in.future_types[r_in.ty].kind = "Select"
    /\ r_out.kind = "SelectValue"

\* The storage of child k of a select: from its offset to the offset of the
\* child after it, or to the end of the select's bytes.
ChildStorage(awaitees, bytes, k) ==
    SubSeq(bytes, awaitees[k][1] + 1,
           IF k < Len(awaitees) THEN awaitees[k + 1][1] ELSE Len(bytes))

\* C29 as claimed: the children of a select are reified in awaitee order,
\* and a child that is opaque holds the bytes of its own storage only, none
\* at or beyond the offset of the child after it.
C29_SelectChildOwnBytes ==
    SelectReified =>
        \A k \in 1..Len(r_in.future_types[r_in.ty].awaitees) :
            /\ r_out.value.awaitees[k].ty = r_in.future_types[r_in.ty].awaitees[k][2]
            /\ r_out.value.awaitees[k].kind = "Unknown" =>
                   r_out.value.awaitees[k].bytes =
                       ChildStorage(r_in.future_types[r_in.ty].awaitees, r_in.bytes, k)

\* The task function a pool of the model belongs to.
TaskOf(task_pool) ==
    (CHOOSE v \in PoolVariables :
         namespace_to_path(v.namespace) = task_pool.path).namespace[2]

\* The TaskPool<..> type of the file that is the one of a task.
PoolTypeOf(task) ==
    CHOOSE t \in { r_in.object_file.debug_info.pool_types[k] :
                     k \in 1..Len(r_in.object_file.debug_info.pool_types) } :
        t.name = "TaskPool<" \o TaskFuture(task) \o ">"

\* C30 as claimed: every pool of the model is bound to the future type of
\* the coroutine of its own task function and to its own pool type, also
\* when the wrapper path of one task is a prefix of another task's.
C30_PoolBoundToOwnTask ==
    (Extracted /\ r_out[1].kind = "Ok") =>
        \A k \in 1..Len(r_out[1].debug_data.task_pools) :
            /\ r_out[1].debug_data.task_pools[k].async_fn_base_type
                   = TaskFuture(TaskOf(r_out[1].debug_data.task_pools[k]))
            /\ r_out[1].debug_data.task_pools[k].async_fn_type
                   = r_in.object_file.debug_info.future_types[
                         TaskFuture(TaskOf(r_out[1].debug_data.task_pools[k]))].async_fn
            /\ r_out[1].debug_data.task_pools[k].number_of_tasks
                   = PoolTypeOf(TaskOf(r_out[1].debug_data.task_pools[k])).count
            /\ r_out[1].debug_data.task_pools[k].future_offset
                   = PoolTypeOf(TaskOf(r_out[1].debug_data.task_pools[k])).future_offset

====
